---------------------------- MODULE Spec2Model ----------------------------
(***************************************************************************)
(* A model of the Zenith procedural ecosystem: the chunk streamer          *)
(* (components/World/Terrain.tsx), the weather controller                  *)
(* (components/Scene.tsx), the noise field and terrain height              *)
(* (utils/math), flora placement (NatureChunk), the flock simulation       *)
(* (components/World/Flock) and the order in which the render loop calls   *)
(* their frame callbacks.                                                  *)
(*                                                                         *)
(* Numbers.  The program computes in IEEE doubles.  The model computes in  *)
(* integers: world positions of the chunk streamer are whole world units,  *)
(* every other real is a fixed-point integer whose unit is stated where    *)
(* the value is defined.                                                   *)
(***************************************************************************)
EXTENDS Integers, Sequences, FiniteSets, TLC

VARIABLES
    \* ---- chunk streamer (Terrain.tsx, InfiniteWorld) ----
    viewerPosition,   \* activeFocus.current: [x, z] in world units
    visibleChunks,    \* React state of InfiniteWorld: sequence of [x, z]
    pendingChunks,    \* a queued setVisibleChunks argument (<<>>: none)
    pendingFocus,     \* the focus chunk the queued list was computed from
    chunkPc,          \* next frame callback of the streamer: "camera" | "world"
    chunkHist,        \* history: what the last applied state update replaced
    terrainChunks,    \* the mounted TerrainChunk components, by React key
    \* ---- weather controller (Scene.tsx, SceneContent) ----
    weatherMode,      \* the weather prop: "DAY" | "CLOUDY"
    weatherRef,       \* weatherRef.current: the live WeatherState
    windVectors,      \* the THREE.Vector3 objects of WeatherConfigs, by owner
    frameDelta,       \* the frame delta of this run, in 1/600 s
    weatherHist,      \* history: time on the current mode, mode switches
    \* ---- noise field (utils/math) ----
    noiseSeed,        \* the seed the exported noise instance was built from
    processRun,       \* the number of times the module has been evaluated
    heightLog,        \* history: results returned so far, by argument
    permLog,          \* history: the table reads of the last watched noise2D
    \* ---- flora placement (NatureChunk.treeData) ----
    floraGen,         \* the treeData computation: loop position and locals
    floraRef,         \* history: the first completed treeData and its chunk
    \* ---- terrain colours (Terrain.tsx, TerrainChunk) ----
    vertexPaint,      \* the vertex the colour loop handled last and its colour
    \* ---- flock simulation (Flock) ----
    birds,            \* the birds array: position, velocity, acceleration
    flockCenter,      \* flockCenterRef.current
    flockVelocity,    \* flockVelocityRef.current
    wanderTarget,     \* wanderTarget.current
    wanderAngle,      \* wanderAngle.current, in 1e-4 rad
    flockPc,          \* position inside Flock.useFrame: phase and bird index
    flockIn,          \* the locals of the running callback: t, localCameraPos
    flockHist,        \* history: ticks run, the birds at the start of the tick
    forceLog,         \* history: the forces the last force pass added, by bird
    \* ---- rain (Rain) ----
    rainMesh,         \* meshRef.current and the drops array of Rain
    \* ---- render loop (Canvas) ----
    frameLoop         \* the frame being rendered, the subscriber to call next

chunkVars ==
    <<viewerPosition, visibleChunks, pendingChunks, pendingFocus, chunkPc,
      chunkHist, terrainChunks>>

weatherVars ==
    <<weatherMode, weatherRef, windVectors, frameDelta, weatherHist>>

noiseVars == <<noiseSeed, processRun, heightLog, permLog>>

floraVars == <<floraGen, floraRef>>

flockVars ==
    <<birds, flockCenter, flockVelocity, wanderTarget, wanderAngle, flockPc,
      flockIn, flockHist, forceLog>>

frameVars == <<frameLoop>>

paintVars == <<vertexPaint>>

rainVars == <<rainMesh>>

vars ==
    <<chunkVars, weatherVars, noiseVars, floraVars, flockVars, frameVars,
      paintVars, rainVars>>

-----------------------------------------------------------------------------
(***************************************************************************)
(* Arithmetic helpers                                                      *)
(***************************************************************************)

\* Math.round(num / den) for den > 0: the nearest integer, halves toward +oo.
MathRound(num, den) == (2 * num + den) \div (2 * den)

SeqToSet(s) == {s[i] : i \in 1..Len(s)}

\* The greatest common divisor of two positive integers.
RECURSIVE Gcd(_, _)
Gcd(a, b) == IF b = 0 THEN a ELSE Gcd(b, a % b)

\* a / b rounded to the nearest integer (b > 0): the rounding of a
\* fixed-point product or quotient.
RDiv(a, b) == (2 * a + b) \div (2 * b)

Abs(a) == IF a < 0 THEN -a ELSE a

\* floor(sqrt(n)) for n >= 0, by bisection.
RECURSIVE SqrtBetween(_, _, _)
SqrtBetween(n, lo, hi) ==
    IF lo >= hi THEN lo
    ELSE LET mid == (lo + hi + 1) \div 2
         IN  IF mid * mid <= n THEN SqrtBetween(n, mid, hi)
             ELSE SqrtBetween(n, lo, mid - 1)

ISqrt(n) == SqrtBetween(n, 0, IF n < 46340 THEN n ELSE 46340)

\* pi and 2 pi in 1e-4 rad.
Pi == 31416
TwoPi == 2 * Pi

\* sin x for x in [-pi/2, pi/2], x and the result in 1e-4: the odd polynomial
\* x (1 - x^2/6 (1 - x^2/20 (1 - x^2/42 (1 - x^2/72)))).
SinPoly(x) ==
    LET x2 == RDiv(x * x, 10000)
        t4 == 10000 - RDiv(x2, 72)
        t3 == 10000 - RDiv(x2 * t4, 42 * 10000)
        t2 == 10000 - RDiv(x2 * t3, 20 * 10000)
        t1 == 10000 - RDiv(x2 * t2, 6 * 10000)
        v == RDiv(x * t1, 10000)
    IN  IF v > 10000 THEN 10000 ELSE IF v < -10000 THEN -10000 ELSE v

\* Math.sin(a) and Math.cos(a), a and the result in 1e-4.
Sin(a) ==
    LET r == a % TwoPi
        h == IF r >= Pi THEN r - Pi ELSE r
        q == IF 2 * h > Pi THEN Pi - h ELSE h
    IN  IF r >= Pi THEN -SinPoly(q) ELSE SinPoly(q)

Cos(a) == Sin(a + 15708)

-----------------------------------------------------------------------------
(***************************************************************************)
(* THREE.Vector3 in fixed point: records [x, y, z] of integers.  A unit    *)
(* vector has length 10000.                                                *)
(***************************************************************************)

Vec(x, y, z) == [x |-> x, y |-> y, z |-> z]
ZeroVec == Vec(0, 0, 0)

\* Vector3.add, Vector3.sub.
VAdd(a, b) == Vec(a.x + b.x, a.y + b.y, a.z + b.z)
VSub(a, b) == Vec(a.x - b.x, a.y - b.y, a.z - b.z)

\* Vector3.multiplyScalar(num / den) and Vector3.divideScalar(den / num).
VScale(v, num, den) ==
    Vec(RDiv(v.x * num, den), RDiv(v.y * num, den), RDiv(v.z * num, den))

MaxAbs(v) ==
    LET a == Abs(v.x)
        b == Abs(v.y)
        c == Abs(v.z)
    IN  IF a >= b /\ a >= c THEN a ELSE IF b >= c THEN b ELSE c

\* Vector3.lengthSq() for components small enough to be squared.
LengthSq(v) == v.x * v.x + v.y * v.y + v.z * v.z

\* The length of a long vector measured at a coarser unit, so that the
\* squares fit.
CoarseLength(v) ==
    (MaxAbs(v) \div 16384 + 1)
        * ISqrt(LengthSq(VScale(v, 1, MaxAbs(v) \div 16384 + 1)))

\* One Newton step from the estimate r0 towards sqrt(x^2 + y^2 + z^2); the
\* squares are kept as digits to the base 1000.
RefineLength(v, r0) ==
    LET xh == Abs(v.x) \div 1000
        xl == Abs(v.x) % 1000
        yh == Abs(v.y) \div 1000
        yl == Abs(v.y) % 1000
        zh == Abs(v.z) \div 1000
        zl == Abs(v.z) % 1000
        rh == r0 \div 1000
        rl == r0 % 1000
        d == (xh * xh + yh * yh + zh * zh - rh * rh) * 1000000
                 + (2 * (xh * xl + yh * yl + zh * zl) - 2 * rh * rl) * 1000
                 + (xl * xl + yl * yl + zl * zl - rl * rl)
    IN  r0 + d \div (2 * r0)

\* Vector3.length().
Length(v) ==
    IF MaxAbs(v) <= 26000 THEN ISqrt(LengthSq(v))
    ELSE IF MaxAbs(v) <= 250000 THEN RefineLength(v, CoarseLength(v))
    ELSE CoarseLength(v)

\* Vector3.normalize(): divideScalar(length() || 1); the zero vector stays
\* zero.  Short and long vectors are rescaled before the square root.
Normalize(v) ==
    LET m == MaxAbs(v)
        w == IF m > 26000 THEN VScale(v, 1, m \div 16384 + 1)
             ELSE IF m < 2600 /\ m > 0 THEN VScale(v, 26000 \div m, 1)
             ELSE v
        len == ISqrt(LengthSq(w))
    IN  IF m = 0 THEN v ELSE VScale(w, 10000, len)

\* Vector3.clampLength(min, max):
\* divideScalar(length || 1).multiplyScalar(max(min, min(max, length))).
ClampLength(v, min, max) ==
    LET len == Length(v)
        c == IF len < min THEN min ELSE IF len > max THEN max ELSE len
    IN  IF len = 0 \/ c = len THEN v
        ELSE VScale(Normalize(v), c, 10000)

-----------------------------------------------------------------------------
(***************************************************************************)
(* Chunk streamer                                                          *)
(***************************************************************************)

CHUNK_SIZE == 200
RENDER_DISTANCE == 2

\* Bounds of the focus positions the camera is moved to: multiples of half a
\* chunk, so that exact half-way values (x / 200 = k + 0.5) occur.
MaxFocusX == 3
MaxFocusZ == 1
HalfChunk == CHUNK_SIZE \div 2
FocusPositions ==
    {[x |-> i * HalfChunk, z |-> j * HalfChunk] :
        i \in (-MaxFocusX)..MaxFocusX, j \in (-MaxFocusZ)..MaxFocusZ}

\* Mutant of FocusChunk: both indices are rounded from the x coordinate.
FocusChunkOfX(pos) ==
    [x |-> MathRound(pos.x, CHUNK_SIZE), z |-> MathRound(pos.x, CHUNK_SIZE)]

\* Math.round(viewerPosition.current.x / CHUNK_SIZE), likewise z.
FocusChunk(pos) ==
    [x |-> MathRound(pos.x, CHUNK_SIZE), z |-> MathRound(pos.z, CHUNK_SIZE)]

\* Mutant of LoopRange: the loops test x < R instead of x <= R.
LoopRangeShort == (-RENDER_DISTANCE)..(RENDER_DISTANCE - 1)

\* The offsets the two nested loops run over: for (x = -R; x <= R; x++).
LoopRange == (-RENDER_DISTANCE)..RENDER_DISTANCE

\* Mutant of NewChunks: the pushed z is currentChunkX + z.
NewChunksWrongAxis(c) ==
    LET n == Cardinality(LoopRange)
        lo == -RENDER_DISTANCE
    IN  [k \in 1..(n * n) |->
            [x |-> c.x + lo + ((k - 1) \div n),
             z |-> c.x + lo + ((k - 1) % n)]]

\* The list the nested loops push, in push order (x outer, z inner).
NewChunks(c) ==
    LET n == Cardinality(LoopRange)
        lo == -RENDER_DISTANCE
    IN  [k \in 1..(n * n) |->
            [x |-> c.x + lo + ((k - 1) \div n),
             z |-> c.z + lo + ((k - 1) % n)]]

\* Mutant of ChunkKey: the key holds the x of every chunk only
\* (chunks.map(c => `${c.x}`).join('|')).
ChunkKeyOfX(chunks) == [k \in DOMAIN chunks |-> ToString(chunks[k].x)]

\* chunks.map(c => `${c.x},${c.z}`).join('|'), as the sequence of its tokens.
RECURSIVE ChunkKey(_)
ChunkKey(chunks) ==
    IF chunks = <<>> THEN <<>>
    ELSE LET c == Head(chunks)
             rest == Tail(chunks)
         IN  <<ToString(c.x), ",", ToString(c.z)>>
             \o (IF rest = <<>> THEN <<>> ELSE <<"|">> \o ChunkKey(rest))

\* The square of coordinates within RENDER_DISTANCE of c (Chebyshev disk).
Disk(c) ==
    {[x |-> c.x + dx, z |-> c.z + dz] :
        dx \in (-RENDER_DISTANCE)..RENDER_DISTANCE,
        dz \in (-RENDER_DISTANCE)..RENDER_DISTANCE}

ActiveSet == SeqToSet(visibleChunks)

\* Mutant of TerrainChunkKey: the key is the index (key={index}).
TerrainChunkKeyByIndex(chunk, index) == ToString(index)

\* key={`${chunk.x}-${chunk.z}`} of the element the map callback returns
\* for chunk, the index-th entry of visibleChunks (line 218).
TerrainChunkKey(chunk, index) ==
    ToString(chunk.x) \o "-" \o ToString(chunk.z)

\* The children React keeps under the group after rendering the list chunks
\* over the mounted children old.  An element whose key is mounted updates
\* that component, whose useMemo (lines 24 and 143) returns the stored
\* geometry and colours when chunkX, chunkZ and size are the same and
\* generates them again otherwise; an element with a new key mounts a new
\* component, which generates; a mounted key that no element has is
\* unmounted.  generated tells whether this render ran the generation.
Reconcile(old, chunks) ==
    LET keyOf(k) == TerrainChunkKey(chunks[k], k)
        keys == {keyOf(k) : k \in DOMAIN chunks}
        lastWith(key) ==
            CHOOSE k \in DOMAIN chunks :
                /\ keyOf(k) = key
                /\ \A j \in DOMAIN chunks : keyOf(j) = key => j <= k
    IN  [key \in keys |->
            LET props == chunks[lastWith(key)]
            IN  [chunkX |-> props.x, chunkZ |-> props.z, size |-> CHUNK_SIZE,
                 generated |->
                     ~(/\ key \in DOMAIN old
                       /\ old[key].chunkX = props.x
                       /\ old[key].chunkZ = props.z
                       /\ old[key].size = CHUNK_SIZE)]]

\* useState(getInitialChunks) with activeFocus = (0, 0, 0) at mount.
ChunkInit ==
    /\ viewerPosition = [x |-> 0, z |-> 0]
    /\ visibleChunks = NewChunks(FocusChunk([x |-> 0, z |-> 0]))
    /\ pendingChunks = <<>>
    /\ pendingFocus = FocusChunk([x |-> 0, z |-> 0])
    /\ chunkPc = "camera"
    /\ chunkHist = [prevChunks |-> <<>>,
                    prevFocus |-> FocusChunk([x |-> 0, z |-> 0]),
                    curFocus |-> FocusChunk([x |-> 0, z |-> 0]),
                    settled |-> FALSE,
                    called |-> FALSE]
    /\ terrainChunks =
           Reconcile(<<>>, NewChunks(FocusChunk([x |-> 0, z |-> 0])))

\* CameraController.useFrame: activeFocusRef.current.copy(camera.position)
\* (explore mode) or .copy(flockPos) (follow mode); the position is an input.
CameraControllerFrame(p) ==
    /\ chunkPc = "camera"
    /\ viewerPosition' = p
    /\ chunkPc' = "world"
    /\ chunkHist' = [chunkHist EXCEPT !.settled = FALSE]
    /\ UNCHANGED <<visibleChunks, pendingChunks, pendingFocus, terrainChunks>>

\* Mutant of InfiniteWorldFrame: the new list is appended to the old one
\* (setVisibleChunks([...visibleChunks, ...newChunks])).
InfiniteWorldFrameAppend ==
    /\ chunkPc = "world"
    /\ LET currentChunk == FocusChunk(viewerPosition)
           newChunks == NewChunks(currentChunk)
       IN  IF ChunkKey(visibleChunks) # ChunkKey(newChunks)
           THEN /\ pendingChunks' =
                       SubSeq(visibleChunks, Len(visibleChunks) - 4,
                              Len(visibleChunks)) \o newChunks
                /\ pendingFocus' = currentChunk
                /\ chunkHist' = [chunkHist EXCEPT !.called = TRUE]
           ELSE /\ UNCHANGED <<pendingChunks, pendingFocus>>
                /\ chunkHist' =
                       [chunkHist EXCEPT !.settled = (pendingChunks = <<>>),
                                         !.called = FALSE]
    /\ chunkPc' = "camera"
    /\ UNCHANGED <<viewerPosition, visibleChunks, terrainChunks>>

\* InfiniteWorld.useFrame: recompute the range, compare the keys, set state.
\* The callback reads the visibleChunks of the latest render; an update that
\* is still queued is replaced by a later setVisibleChunks.
InfiniteWorldFrame ==
    /\ chunkPc = "world"
    /\ LET currentChunk == FocusChunk(viewerPosition)
           newChunks == NewChunks(currentChunk)
           currentKey == ChunkKey(visibleChunks)
           newKey == ChunkKey(newChunks)
       IN  IF currentKey # newKey
           THEN /\ pendingChunks' = newChunks
                /\ pendingFocus' = currentChunk
                /\ chunkHist' = [chunkHist EXCEPT !.called = TRUE]
           ELSE /\ UNCHANGED <<pendingChunks, pendingFocus>>
                /\ chunkHist' =
                       [chunkHist EXCEPT !.settled = (pendingChunks = <<>>),
                                         !.called = FALSE]
    /\ chunkPc' = "camera"
    /\ UNCHANGED <<viewerPosition, visibleChunks, terrainChunks>>

\* React applies the queued state update between two frames and re-renders
\* InfiniteWorld with the new list.
ReactRender ==
    /\ chunkPc = "camera"
    /\ pendingChunks # <<>>
    /\ visibleChunks' = pendingChunks
    /\ pendingChunks' = <<>>
    /\ terrainChunks' = Reconcile(terrainChunks, pendingChunks)
    /\ chunkHist' = [prevChunks |-> visibleChunks,
                     prevFocus |-> chunkHist.curFocus,
                     curFocus |-> pendingFocus,
                     settled |-> FALSE,
                     called |-> chunkHist.called]
    /\ UNCHANGED <<viewerPosition, pendingFocus, chunkPc>>

-----------------------------------------------------------------------------
(***************************************************************************)
(* Weather controller (Scene.tsx)                                          *)
(*                                                                         *)
(* Units: the five scalars are in 1e-5; colour channels are 0..255; the    *)
(* components of windDirection are in 1e-4; time is in 1/600 s, so that    *)
(* lerpSpeed = delta * 1.5 is the fraction delta / 400.                    *)
(***************************************************************************)

WeatherModes == {"DAY", "CLOUDY"}

\* The frame deltas of a run: 0.1 s, 2/3 s (lerpSpeed 1), 1 s (lerpSpeed
\* 1.5) and 4/3 s (lerpSpeed 2).
FrameDeltas == {60, 400, 600, 800}

\* Frames are taken while the mode has been held for at most MaxHeld seconds;
\* the weather buttons are pressed at most MaxSwitches times.
MaxHeld == 5
MaxSwitches == 2
TicksPerSecond == 6 * 100

\* new THREE.Vector3(x, y, z).normalize() for components given in tenths.
NormalizedTenths(x, y, z) ==
    LET len == ISqrt((x * x + y * y + z * z) * 4000 * 4000)
    IN  [x |-> RDiv(x * 4000 * 10000, len),
         y |-> RDiv(y * 4000 * 10000, len),
         z |-> RDiv(z * 4000 * 10000, len)]

\* WeatherConfigs.  windDirection holds a reference to the preset's own
\* Vector3 object, whose components are in windVectors.
WeatherConfigs ==
    [DAY    |-> [windSpeed |-> 100000, rainIntensity |-> 0,
                 fogDensity |-> 200, lightIntensity |-> 130000,
                 cloudOpacity |-> 40000,
                 fogColor |-> <<135, 206, 235>>,
                 sunColor |-> <<255, 250, 205>>,
                 skyColor |-> <<135, 206, 235>>,
                 windDirection |-> "DAY"],
     CLOUDY |-> [windSpeed |-> 450000, rainIntensity |-> 20000,
                 fogDensity |-> 1200, lightIntensity |-> 50000,
                 cloudOpacity |-> 90000,
                 fogColor |-> <<74, 80, 89>>,
                 sunColor |-> <<128, 128, 128>>,
                 skyColor |-> <<44, 62, 80>>,
                 windDirection |-> "CLOUDY"]]

\* The Vector3 objects the module creates for the two presets.
PresetWind ==
    [DAY |-> NormalizedTenths(10, 0, 5), CLOUDY |-> NormalizedTenths(5, 0, 8)]

ScalarFields ==
    {"windSpeed", "rainIntensity", "fogDensity", "lightIntensity",
     "cloudOpacity"}
ColorFields == {"fogColor", "sunColor", "skyColor"}

\* Mutant of LerpSpeed: const lerpSpeed = delta * 0.15.
LerpSpeedTenth(delta) == [num |-> delta, den |-> 4000]

\* const lerpSpeed = delta * 1.5, as a fraction [num / den] in lowest terms.
LerpSpeed(delta) ==
    LET g == Gcd(delta, 400) IN [num |-> delta \div g, den |-> 400 \div g]

\* THREE.MathUtils.lerp(x, y, t) = (1 - t) * x + t * y; t is not clamped.
MathLerp(x, y, t) == x + RDiv((y - x) * t.num, t.den)

\* new THREE.Color(hex): SRGBToLinear(c / 255) for the byte c = 0 .. 255, in
\* 1e-6, at index c + 1.
SRGBToLinearTable == <<
          0,     304,     607,     911,    1214,    1518,    1821,    2125,    2428,    2732,
       3035,    3347,    3677,    4025,    4391,    4777,    5182,    5605,    6049,    6512,
       6995,    7499,    8023,    8568,    9134,    9721,   10330,   10960,   11612,   12286,
      12983,   13702,   14444,   15209,   15996,   16807,   17642,   18500,   19382,   20289,
      21219,   22174,   23153,   24158,   25187,   26241,   27321,   28426,   29557,   30713,
      31896,   33105,   34340,   35601,   36889,   38204,   39546,   40915,   42311,   43735,
      45186,   46665,   48172,   49707,   51269,   52861,   54480,   56128,   57805,   59511,
      61246,   63010,   64803,   66626,   68478,   70360,   72272,   74214,   76185,   78187,
      80220,   82283,   84376,   86500,   88656,   90842,   93059,   95307,   97587,   99899,
     102242,  104616,  107023,  109462,  111932,  114435,  116971,  119538,  122139,  124772,
     127438,  130136,  132868,  135633,  138432,  141263,  144128,  147027,  149960,  152926,
     155926,  158961,  162029,  165132,  168269,  171441,  174647,  177888,  181164,  184475,
     187821,  191202,  194618,  198069,  201556,  205079,  208637,  212231,  215861,  219526,
     223228,  226966,  230740,  234551,  238398,  242281,  246201,  250158,  254152,  258183,
     262251,  266356,  270498,  274677,  278894,  283149,  287441,  291771,  296138,  300544,
     304987,  309469,  313989,  318547,  323143,  327778,  332452,  337164,  341914,  346704,
     351533,  356400,  361307,  366253,  371238,  376262,  381326,  386429,  391572,  396755,
     401978,  407240,  412543,  417885,  423268,  428690,  434154,  439657,  445201,  450786,
     456411,  462077,  467784,  473531,  479320,  485150,  491021,  496933,  502886,  508881,
     514918,  520996,  527115,  533276,  539479,  545724,  552011,  558340,  564712,  571125,
     577580,  584078,  590619,  597202,  603827,  610496,  617207,  623960,  630757,  637597,
     644480,  651406,  658375,  665387,  672443,  679542,  686685,  693872,  701102,  708376,
     715694,  723055,  730461,  737910,  745404,  752942,  760525,  768151,  775822,  783538,
     791298,  799103,  806952,  814847,  822786,  830770,  838799,  846873,  854993,  863157,
     871367,  879622,  887923,  896269,  904661,  913099,  921582,  930111,  938686,  947307,
     955973,  964686,  973445,  982251,  991102, 1000000 >>

\* getHexString(): for k = 1 .. 255 the smallest linear value, in 1e-6, whose
\* byte Math.round(clamp(LinearToSRGB(v) * 255, 0, 255)) is at least k.
HexThresholds == <<
        152,     456,     759,    1063,    1366,    1670,    1973,    2277,    2580,    2884,
       3189,    3509,    3848,    4206,    4582,    4977,    5391,    5825,    6278,    6751,
       7245,    7758,    8293,    8848,    9425,   10023,   10642,   11283,   11946,   12632,
      13339,   14070,   14823,   15599,   16398,   17221,   18067,   18938,   19832,   20750,
      21693,   22660,   23651,   24668,   25710,   26777,   27869,   28987,   30131,   31300,
      32496,   33718,   34966,   36241,   37542,   38870,   40226,   41608,   43018,   44455,
      45920,   47413,   48934,   50483,   52060,   53665,   55299,   56961,   58653,   60373,
      62122,   63901,   65709,   67546,   69413,   71310,   73236,   75193,   77180,   79197,
      81245,   83323,   85432,   87571,   89742,   91943,   94176,   96440,   98736,  101063,
     103422,  105812,  108235,  110690,  113176,  115695,  118247,  120831,  123448,  126097,
     128779,  131494,  134243,  137024,  139839,  142688,  145570,  148485,  151435,  154418,
     157435,  160487,  163572,  166692,  169847,  173036,  176259,  179518,  182811,  186139,
     189502,  192901,  196335,  199804,  203308,  206849,  210425,  214036,  217684,  221368,
     225088,  228844,  232636,  236465,  240330,  244232,  248170,  252146,  256158,  260207,
     264293,  268417,  272578,  276776,  281012,  285285,  289596,  293944,  298331,  302756,
     307218,  311719,  316258,  320835,  325450,  330105,  334797,  339529,  344299,  349108,
     353956,  358843,  363769,  368735,  373740,  378784,  383867,  388991,  394154,  399356,
     404599,  409881,  415203,  420566,  425969,  431412,  436895,  442419,  447983,  453588,
     459234,  464920,  470647,  476416,  482225,  488075,  493967,  499900,  505874,  511889,
     517946,  524045,  530186,  536368,  542592,  548858,  555166,  561516,  567908,  574343,
     580820,  587339,  593901,  600505,  607152,  613841,  620574,  627349,  634168,  641029,
     647933,  654881,  661872,  668906,  675984,  683105,  690269,  697478,  704730,  712026,
     719366,  726749,  734177,  741649,  749165,  756725,  764329,  771978,  779672,  787410,
     795192,  803020,  810892,  818808,  826770,  834777,  842829,  850926,  859068,  867255,
     875488,  883766,  892089,  900459,  908873,  917334,  925840,  934392,  942990,  951634,
     960324,  969060,  977842,  986671,  995546 >>

\* The byte getHexString() writes for the linear channel value v.
LinearToHex(v) == Cardinality({k \in 1..255 : HexThresholds[k] <= v})

\* new THREE.Color(cur).lerp(new THREE.Color(target), t).getHexString():
\* every channel is decoded to linear, interpolated there and written back
\* as a byte.
ColorLerp(c, target, t) ==
    [k \in 1..3 |->
        LinearToHex(MathLerp(SRGBToLinearTable[c[k] + 1],
                             SRGBToLinearTable[target[k] + 1], t))]

\* Vector3.lerp(v, alpha): this.x += (v.x - this.x) * alpha, likewise y, z.
\* The result is not normalized.
VectorLerp(a, b, t) ==
    [x |-> MathLerp(a.x, b.x, t), y |-> MathLerp(a.y, b.y, t),
     z |-> MathLerp(a.z, b.z, t)]

\* The live wind direction: the Vector3 that weatherRef.current refers to.
LiveWind == windVectors[weatherRef.windDirection]

\* App: useState('DAY'); SceneContent: useRef({ ...WeatherConfigs[weather] }),
\* a shallow copy, so the live windDirection is the DAY preset's Vector3.
WeatherStart(d) ==
    /\ weatherMode = "DAY"
    /\ weatherRef = WeatherConfigs["DAY"]
    /\ windVectors = PresetWind
    /\ frameDelta = d
    /\ weatherHist = [held |-> 0, switches |-> 0, frames |-> 0]

\* App: onClick={() => setWeather(m)}; the next render passes the new mode
\* to SceneContent.
SetWeather(m) ==
    /\ m # weatherMode
    /\ weatherHist.switches < MaxSwitches
    /\ weatherMode' = m
    /\ weatherHist' = [held |-> 0, switches |-> weatherHist.switches + 1,
                       frames |-> 0]
    /\ UNCHANGED <<weatherRef, windVectors, frameDelta>>

\* SceneContent.useFrame: one interpolation step towards the preset of the
\* current mode.
WeatherLerp(delta) ==
    LET targetParams == WeatherConfigs[weatherMode]
        lerpSpeed == LerpSpeed(delta)
        live == weatherRef.windDirection
    IN  /\ weatherRef' =
               [f \in DOMAIN weatherRef |->
                   IF f \in ScalarFields
                   THEN MathLerp(weatherRef[f], targetParams[f], lerpSpeed)
                   ELSE IF f \in ColorFields
                   THEN ColorLerp(weatherRef[f], targetParams[f], lerpSpeed)
                   ELSE weatherRef[f]]
        /\ windVectors' =
               [windVectors EXCEPT ![live] =
                   VectorLerp(windVectors[live],
                              windVectors[targetParams.windDirection],
                              lerpSpeed)]

WeatherFrame ==
    /\ weatherHist.held <= MaxHeld * TicksPerSecond
    /\ WeatherLerp(frameDelta)
    /\ weatherHist' = [weatherHist EXCEPT !.held = @ + frameDelta,
                                          !.frames = @ + 1]
    /\ UNCHANGED <<weatherMode, frameDelta>>

-----------------------------------------------------------------------------
(***************************************************************************)
(* Noise field and terrain height (utils/math)                             *)
(*                                                                         *)
(* Units: the arguments of noise2D are in 1e-6; the fractional cell        *)
(* position, fade values, gradients and noise values are in 1e-4; world    *)
(* coordinates and heights are in 1e-3.                                    *)
(***************************************************************************)

\* Math.floor(Math.abs(Math.sin(k)) * 256) for k = 0 .. 511, at index k + 1.
SinTable == <<
      0, 215, 232,  36, 193, 245,  71, 168, 253, 105, 139, 255, 137, 107, 253, 166,
     73, 246, 192,  38, 233, 214,   2, 216, 231,  33, 195, 244,  69, 169, 252, 103,
    141, 255, 135, 109, 253, 164,  75, 246, 190,  40, 234, 212,   4, 217, 230,  31,
    196, 244,  67, 171, 252, 101, 143, 255, 133, 111, 254, 163,  78, 247, 189,  42,
    235, 211,   6, 219, 229,  29, 198, 243,  64, 173, 252,  99, 144, 255, 131, 113,
    254, 161,  80, 247, 187,  45, 236, 210,   9, 220, 228,  27, 199, 242,  62, 174,
    251,  97, 146, 255, 129, 115, 254, 159,  82, 248, 186,  47, 237, 209,  11, 221,
    227,  24, 200, 242,  60, 176, 251,  95, 148, 255, 127, 117, 254, 157,  84, 248,
    184,  49, 238, 207,  13, 222, 226,  22, 202, 241,  58, 178, 250,  92, 150, 255,
    125, 119, 255, 155,  86, 249, 183,  51, 238, 206,  15, 223, 225,  20, 203, 240,
     56, 179, 250,  90, 152, 255, 123, 121, 255, 154,  88, 250, 181,  53, 239, 205,
     18, 224, 224,  18, 205, 239,  53, 181, 250,  88, 154, 255, 121, 123, 255, 152,
     90, 250, 179,  56, 240, 203,  20, 225, 223,  15, 206, 238,  51, 183, 249,  86,
    155, 255, 119, 125, 255, 150,  92, 250, 178,  58, 241, 202,  22, 226, 222,  13,
    207, 238,  49, 184, 248,  84, 157, 254, 117, 127, 255, 148,  95, 251, 176,  60,
    242, 200,  24, 227, 221,  11, 209, 237,  47, 186, 248,  82, 159, 254, 115, 129,
    255, 146,  97, 251, 174,  62, 242, 199,  27, 228, 220,   9, 210, 236,  45, 187,
    247,  80, 161, 254, 113, 131, 255, 144,  99, 252, 173,  64, 243, 198,  29, 229,
    219,   6, 211, 235,  42, 189, 247,  78, 163, 254, 111, 133, 255, 143, 101, 252,
    171,  67, 244, 196,  31, 230, 217,   4, 212, 234,  40, 190, 246,  75, 164, 253,
    109, 135, 255, 141, 103, 252, 169,  69, 244, 195,  33, 231, 216,   2, 214, 233,
     38, 192, 246,  73, 166, 253, 107, 137, 255, 139, 105, 253, 168,  71, 245, 193,
     36, 232, 215,   0, 215, 232,  36, 193, 245,  71, 168, 253, 105, 139, 255, 137,
    107, 253, 166,  73, 246, 192,  38, 233, 214,   2, 216, 231,  33, 195, 244,  69,
    169, 252, 103, 141, 255, 135, 109, 253, 164,  75, 246, 190,  40, 234, 212,   4,
    217, 230,  31, 196, 244,  67, 171, 252, 101, 143, 255, 133, 111, 254, 162,  78,
    247, 189,  42, 235, 211,   6, 219, 229,  29, 198, 243,  64, 173, 252,  99, 144,
    255, 131, 113, 254, 161,  80, 247, 187,  45, 236, 210,   9, 220, 228,  27, 199,
    242,  62, 174, 251,  97, 146, 255, 129, 115, 254, 159,  82, 248, 186,  47, 237,
    209,  11, 221, 227,  24, 200, 242,  60, 176, 251,  95, 148, 255, 127, 117, 254,
    157,  84, 248, 184,  49, 238, 207,  13, 222, 226,  22, 202, 241,  58, 178, 250,
     92, 150, 255, 125, 119, 255, 155,  86, 249, 183,  51, 238, 206,  15, 223, 225 >>

\* The seeds Math.random() * 1000 is drawn from: the products for
\* Math.random() = 0, 0.125, 0.245 and 0.25.
NoiseSeeds == {0, 125, 245, 250}

\* The module is evaluated at most MaxRuns times (process starts).
MaxRuns == 2

\* The seed Math.PI / 2 = 1.5707963267948966, the product for Math.random()
\* near 0.00157079632679; it is written 1000 here, a number no whole seed
\* below 1000 takes.  Math.sin returns exactly 1 for it, as for every double
\* within 1e-8 of an odd multiple of pi / 2.
HalfPiSeed == 1000

\* Math.floor(Math.abs(Math.sin(Math.PI / 2 + i)) * 256) for i = 0 .. 255,
\* at index i + 1.
HalfPiTable == <<
    256, 138, 106, 253, 167,  72, 245, 192,  37, 233, 214,   1, 216, 232,  35, 194,
    245,  70, 169, 253, 104, 140, 255, 136, 108, 253, 165,  74, 246, 191,  39, 234,
    213,   3, 217, 231,  32, 195, 244,  68, 170, 252, 102, 142, 255, 134, 110, 254,
    163,  76, 247, 189,  41, 235, 212,   5, 218, 230,  30, 197, 243,  66, 172, 252,
    100, 143, 255, 132, 112, 254, 162,  79, 247, 188,  43, 235, 211,   7, 219, 229,
     28, 198, 243,  63, 174, 252,  98, 145, 255, 130, 114, 254, 160,  81, 248, 186,
     46, 236, 209,  10, 220, 228,  26, 200, 242,  61, 175, 251,  96, 147, 255, 128,
    116, 254, 158,  83, 248, 185,  48, 237, 208,  12, 221, 227,  23, 201, 241,  59,
    177, 251,  94, 149, 255, 126, 118, 254, 156,  85, 249, 183,  50, 238, 207,  14,
    223, 226,  21, 203, 240,  57, 179, 250,  91, 151, 255, 124, 120, 255, 155,  87,
    249, 182,  52, 239, 205,  16, 224, 225,  19, 204, 240,  55, 180, 250,  89, 153,
    255, 122, 122, 255, 153,  89, 250, 180,  55, 240, 204,  19, 225, 224,  16, 205,
    239,  52, 182, 249,  87, 155, 255, 120, 124, 255, 151,  91, 250, 179,  57, 240,
    203,  21, 226, 223,  14, 207, 238,  50, 183, 249,  85, 156, 254, 118, 126, 255,
    149,  94, 251, 177,  59, 241, 201,  23, 227, 221,  12, 208, 237,  48, 185, 248,
     83, 158, 254, 116, 128, 255, 147,  96, 251, 175,  61, 242, 200,  26, 228, 220 >>

\* The seeds the table reads are watched for.
LookupSeeds == NoiseSeeds \cup {HalfPiSeed}

\* The value undefined, which reading past the end of an array returns.
Undefined == -1

\* PseudoNoise.constructor: this.p[i] for i in 0 .. 255.
BaseTable(seed, i) ==
    IF seed = HalfPiSeed THEN HalfPiTable[i + 1] ELSE SinTable[seed + i + 1]

\* this.perm[i], where the constructor set this.perm[i] = this.p[i & 255]
\* for i in 0 .. 511; any other index reads undefined.
Perm(seed, i) ==
    IF i \in 0..511 THEN BaseTable(seed, i % 256) ELSE Undefined

\* PseudoNoise.fade: t * t * t * (t * (t * 6 - 15) + 10).
Fade(t) ==
    LET cube == RDiv(RDiv(t * t, 10000) * t, 10000)
        poly == RDiv(t * (6 * t - 150000), 10000) + 100000
    IN  RDiv(cube * poly, 10000)

\* PseudoNoise.lerp: a + t * (b - a).
NoiseLerp(t, a, b) == a + RDiv(t * (b - a), 10000)

\* PseudoNoise.grad; undefined & 15 is 0.
Grad(hash, x, y, z) ==
    LET h == IF hash = Undefined THEN 0 ELSE hash % 16
        u == IF h < 8 THEN x ELSE y
        v == IF h < 4 THEN y ELSE IF h = 12 \/ h = 14 THEN x ELSE z
    IN  (IF h % 2 = 0 THEN u ELSE -u) + (IF (h \div 2) % 2 = 0 THEN v ELSE -v)

\* PseudoNoise.noise2D of the instance built from seed.
Noise2D(seed, x, y) ==
    LET X == (x \div 1000000) % 256
        Y == (y \div 1000000) % 256
        fx == (x % 1000000) \div 100
        fy == (y % 1000000) \div 100
        u == Fade(fx)
        v == Fade(fy)
        A == Perm(seed, X) + Y
        AA == Perm(seed, A)
        AB == Perm(seed, A + 1)
        B == Perm(seed, X + 1) + Y
        BA == Perm(seed, B)
        BB == Perm(seed, B + 1)
    IN  NoiseLerp(v,
            NoiseLerp(u, Grad(Perm(seed, AA), fx, fy, 0),
                         Grad(Perm(seed, BA), fx - 10000, fy, 0)),
            NoiseLerp(u, Grad(Perm(seed, AB), fx, fy - 10000, 0),
                         Grad(Perm(seed, BB), fx - 10000, fy - 10000, 0)))

\* The indices noise2D reads this.perm at for a point of the cell (X, Y),
\* in the order of the reads, each with the value read.
PermReads(seed, X, Y) ==
    LET A == Perm(seed, X) + Y
        AA == Perm(seed, A)
        AB == Perm(seed, A + 1)
        B == Perm(seed, X + 1) + Y
        BA == Perm(seed, B)
        BB == Perm(seed, B + 1)
        index == <<X, A, A + 1, X + 1, B, B + 1, AA, BA, AB, BB>>
    IN  [k \in 1..10 |->
            [index |-> index[k], value |-> Perm(seed, index[k])]]

AMPLITUDE == 25
\* FREQUENCY = 0.012, in 1e-3.
FREQUENCY == 12
\* WATER_LEVEL = 1.8 and TREELINE = 18.0, in 1e-3.
WATER_LEVEL == 1800
TREELINE == 18000

\* The value of y after the four y += noise.noise2D(...) * ... statements
\* (lines 85-89), in 1e-3.
LayeredNoise(seed, x, z) ==
    LET y1 == Noise2D(seed, x * FREQUENCY, z * FREQUENCY) * AMPLITUDE
        y2 == RDiv(Noise2D(seed, RDiv(x * FREQUENCY * 25, 10),
                                 RDiv(z * FREQUENCY * 25, 10)) * AMPLITUDE, 4)
        y3 == RDiv(Noise2D(seed, x * FREQUENCY * 6, z * FREQUENCY * 6)
                       * AMPLITUDE, 10)
        y4 == RDiv(Noise2D(seed, x * FREQUENCY * 15, z * FREQUENCY * 15)
                       * AMPLITUDE, 30)
    IN  RDiv(y1 + y2 + y3 + y4, 10)

\* Mutant of FlattenValleys: every height is multiplied by 0.6.
FlattenAll(y) == RDiv(y * 6, 10)

\* if (y < 0) y *= 0.6 (line 92).
FlattenValleys(y) == IF y < 0 THEN RDiv(y * 6, 10) ELSE y

\* getTerrainHeight(x, z) with the noise instance built from seed.
GetTerrainHeight(seed, x, z) == FlattenValleys(LayeredNoise(seed, x, z))

\* The arguments (x, z), in 1e-3 world units, at which the terrain is sampled.
SamplePoints ==
    {<<10000, 20000>>, <<-35500, 77250>>, <<100000, -100000>>, <<5250, 5250>>}

\* export const noise = new PseudoNoise(Math.random() * 1000), evaluated when
\* the module is loaded: once per process run.
NoiseStart(seed) ==
    /\ noiseSeed = seed
    /\ processRun = 1
    /\ heightLog = [p \in SamplePoints |-> {}]
    /\ permLog = [called |-> FALSE, seed |-> 0, X |-> 0, Y |-> 0,
                  reads |-> <<>>]

\* The page is loaded again: the module is evaluated anew with a fresh
\* Math.random() draw.
ModuleLoad(seed) ==
    /\ processRun < MaxRuns
    /\ noiseSeed' = seed
    /\ processRun' = processRun + 1
    /\ UNCHANGED <<heightLog, permLog>>

\* A caller evaluates noise.noise2D(x * FREQUENCY, z * FREQUENCY) and
\* getTerrainHeight(x, z).
SampleTerrain(p) ==
    /\ heightLog' =
           [heightLog EXCEPT ![p] = @ \cup
               {[sample2D |-> Noise2D(noiseSeed, p[1] * FREQUENCY,
                                      p[2] * FREQUENCY),
                 height |-> GetTerrainHeight(noiseSeed, p[1], p[2])]}]
    /\ UNCHANGED <<noiseSeed, processRun, permLog>>

\* The cell columns and rows the watched calls of noise2D fall in.
LookupColumns == {0, 1, 11, 127, 255}
LookupRows == {0, 1, 127, 254, 255}

\* A caller evaluates noise.noise2D at a point of the cell (X, Y) =
\* (Math.floor(x) & 255, Math.floor(y) & 255); the reads of this.perm are
\* recorded.
Noise2DCall(X, Y) ==
    /\ permLog' = [called |-> TRUE, seed |-> noiseSeed, X |-> X, Y |-> Y,
                   reads |-> PermReads(noiseSeed, X, Y)]
    /\ UNCHANGED <<noiseSeed, processRun, heightLog>>

-----------------------------------------------------------------------------
(***************************************************************************)
(* Flora placement (NatureChunk.treeData)                                  *)
(*                                                                         *)
(* The generator state seed is the exact decimal sign * (int + frac/1e4).  *)
(* random() values are in 1e-6, positions in 1e-3, scales and tilts in     *)
(* 1e-6, angles in 1e-4 rad.                                               *)
(***************************************************************************)

TREES_PER_CHUNK == 150

\* The modulus of the generator.
LcgModulus == 233280

\* The chunk coordinates flora is generated for.  With the noise seed 245
\* chunk (-2, 2) collects TREES_PER_CHUNK trees before the attempts run out.
FloraCoords ==
    {[x |-> 0, z |-> 0], [x |-> 1, z |-> 0], [x |-> -1, z |-> 1],
     [x |-> -2, z |-> 2]}

\* A signed amount of 1e-4 units as a generator state.
SeedOf(n) ==
    [neg |-> n < 0, int |-> Abs(n) \div 10000, frac |-> Abs(n) % 10000]

\* let seed = chunkX * 43758.5453 + chunkZ * 23421.6543.
InitialSeed(chunkX, chunkZ) ==
    SeedOf(chunkX * 437585453 + chunkZ * 234216543)

\* (seed * 9301 + 49297) % 233280 with the remainder of JavaScript, which
\* has the sign of the dividend.
LcgNext(seed) ==
    LET fprod == seed.frac * 9301
        iprod == (((seed.int % LcgModulus) * 93) % LcgModulus) * 100
                     + (seed.int % LcgModulus) * 1 + fprod \div 10000
        small == (seed.int * 10000 + seed.frac) * 9301
    IN  IF ~seed.neg
        THEN [neg |-> FALSE, int |-> (iprod + 49297) % LcgModulus,
              frac |-> fprod % 10000]
        ELSE IF seed.int <= 5
        THEN IF small <= 492970000
             THEN SeedOf(492970000 - small)
             ELSE [neg |-> TRUE,
                   int |-> ((small - 492970000) \div 10000) % LcgModulus,
                   frac |-> (small - 492970000) % 10000]
        ELSE [neg |-> TRUE, int |-> (iprod - 49297) % LcgModulus,
              frac |-> fprod % 10000]

\* return seed / 233280, in 1e-6.
RandomValue(seed) ==
    LET mag == RDiv(seed.int * 3125 + (seed.frac * 3125) \div 10000, 729)
    IN  IF seed.neg THEN -mag ELSE mag

\* seed / 233280 > 0.75, decided on the exact state.
AboveThreeQuarters(seed) ==
    /\ ~seed.neg
    /\ \/ seed.int > 174960
       \/ seed.int = 174960 /\ seed.frac > 0

\* The k-th state after seed.
RECURSIVE LcgAfter(_, _)
LcgAfter(seed, k) == IF k = 0 THEN seed ELSE LcgAfter(LcgNext(seed), k - 1)

\* The placement rules a candidate tree must pass before the sparsity draw
\* (lines 576-580): y in 1e-3, clusterNoise in 1e-4.
PlacementGate(y, clusterNoise) ==
    /\ y > WATER_LEVEL + 500
    /\ y < TREELINE
    /\ ~(clusterNoise < -2000)

\* One iteration of the placement loop from generator state seed: the state
\* after its random() calls and the instance it pushes (if any).
TreeAttempt(noise, chunkX, chunkZ, size, seed) ==
    LET s1 == LcgNext(seed)
        s2 == LcgNext(s1)
        lx == RDiv((RandomValue(s1) - 500000) * size, 1000)
        lz == RDiv((RandomValue(s2) - 500000) * size, 1000)
        absX == chunkX * size * 1000 + lx
        absZ == chunkZ * size * 1000 + lz
        y == GetTerrainHeight(noise, absX, absZ)
        clusterNoise ==
            RDiv(Sin(RDiv(absX, 2)) * Cos(RDiv(absZ, 2)), 10000)
        s3 == LcgNext(s2)
        r4 == RandomValue(LcgAfter(s3, 1))
        r5 == RandomValue(LcgAfter(s3, 2))
        r6 == RandomValue(LcgAfter(s3, 3))
        r7 == RandomValue(LcgAfter(s3, 4))
        r8 == RandomValue(LcgAfter(s3, 5))
        r9 == RandomValue(LcgAfter(s3, 6))
        baseScale == RDiv(700000 + r4, 7)
        heightMult == 800000 + RDiv(r5 * 4, 10)
    IN  IF ~PlacementGate(y, clusterNoise)
        THEN [seed |-> s2, placed |-> FALSE]
        ELSE IF AboveThreeQuarters(s3)
        THEN [seed |-> s3, placed |-> FALSE]
        ELSE [seed |-> LcgAfter(s3, 6), placed |-> TRUE,
              tree |->
                 [position |-> [x |-> lx, y |-> y - 300, z |-> lz],
                  scale |-> [x |-> baseScale,
                             y |-> RDiv(baseScale * RDiv(heightMult, 1000),
                                        1000),
                             z |-> baseScale],
                  rotationY |-> RDiv(RDiv(r6, 100) * TwoPi, 10000),
                  tiltX |-> RDiv((r7 - 500000) * 15, 100),
                  tiltZ |-> RDiv((r8 - 500000) * 15, 100),
                  phase |-> RDiv(RDiv(r9, 100) * TwoPi, 10000)]]

FloraIdle ==
    [pc |-> "idle", chunk |-> [x |-> 0, z |-> 0], i |-> 0, count |-> 0,
     seed |-> SeedOf(0), data |-> <<>>]

FloraStart ==
    /\ floraGen = FloraIdle
    /\ floraRef = [set |-> FALSE, chunk |-> [x |-> 0, z |-> 0], data |-> <<>>]

\* A NatureChunk for chunk c mounts: useMemo starts computing treeData.
BeginTreeData(c) ==
    /\ floraGen.pc # "loop"
    /\ floraGen' = [pc |-> "loop", chunk |-> c, i |-> 0, count |-> 0,
                    seed |-> InitialSeed(c.x, c.z), data |-> <<>>]
    /\ UNCHANGED floraRef

\* The loop state after an attempt a: i++, and count++, data.push(tree) if
\* the attempt placed a tree.
AfterAttempt(gen, a) ==
    [gen EXCEPT !.i = @ + 1,
                !.seed = a.seed,
                !.count = IF a.placed THEN @ + 1 ELSE @,
                !.data = IF a.placed THEN Append(@, a.tree) ELSE @]

\* Mutant of TreeDataIteration: the loop has no
\* if (count >= TREES_PER_CHUNK) break.
TreeDataIterationNoBreak ==
    /\ floraGen.pc = "loop"
    /\ 2 * floraGen.i < 5 * TREES_PER_CHUNK
    /\ floraGen' = AfterAttempt(floraGen,
                                TreeAttempt(noiseSeed, floraGen.chunk.x,
                                            floraGen.chunk.z, CHUNK_SIZE,
                                            floraGen.seed))
    /\ UNCHANGED floraRef

\* One iteration of for (let i = 0; i < TREES_PER_CHUNK * 2.5; i++).
TreeDataIteration ==
    /\ floraGen.pc = "loop"
    /\ 2 * floraGen.i < 5 * TREES_PER_CHUNK
    /\ floraGen.count < TREES_PER_CHUNK
    /\ floraGen' = AfterAttempt(floraGen,
                                TreeAttempt(noiseSeed, floraGen.chunk.x,
                                            floraGen.chunk.z, CHUNK_SIZE,
                                            floraGen.seed))
    /\ UNCHANGED floraRef

\* The loop ends (condition false or break): return data.
FinishTreeData ==
    /\ floraGen.pc = "loop"
    /\ \/ 2 * floraGen.i >= 5 * TREES_PER_CHUNK
       \/ floraGen.count >= TREES_PER_CHUNK
    /\ floraGen' = [floraGen EXCEPT !.pc = "done"]
    /\ floraRef' =
           IF floraRef.set THEN floraRef
           ELSE [set |-> TRUE, chunk |-> floraGen.chunk,
                 data |-> floraGen.data]

-----------------------------------------------------------------------------
(***************************************************************************)
(* Terrain colours (Terrain.tsx, TerrainChunk)                             *)
(*                                                                         *)
(* Units: heights are in 1e-3, the y component of the vertex normal is in  *)
(* 1e-2, noise values are in 1e-4, colour factors and blend fractions are  *)
(* in 1e-3.  A colour is the record of the operations that made it: the    *)
(* palette colour copied, the factor of multiplyScalar, and the colour and *)
(* fraction of lerp ("none", 0 without lerp).                              *)
(***************************************************************************)

SAND_LEVEL == 3800
ROCK_LEVEL == 22000

\* finalColor.copy(base).multiplyScalar(times / 1000).
Scaled(base, times) ==
    [base |-> base, times |-> times, toward |-> "none", by |-> 0]

\* finalColor.copy(base).
Plain(base) == Scaled(base, 1000)

\* finalColor.copy(base).lerp(toward, by / 1000).
Blended(base, toward, by) ==
    [base |-> base, times |-> 1000, toward |-> toward, by |-> by]

\* Math.max(0, Math.min(1, blend)) for blend in 1e-3.
Clamp01(blend) == IF blend < 0 THEN 0 ELSE IF blend > 1000 THEN 1000 ELSE blend

\* Steep terrain (lines 82-101): ny < 0.65.
SteepColor(y, n, microN) ==
    LET rock == IF n > 0 THEN "colorRock" ELSE "colorDarkRock"
        snowStartHeight == ROCK_LEVEL + 25000
        snowBlend == RDiv((y - snowStartHeight + 10000) * 1000, 10000)
    IN  IF y > ROCK_LEVEL + 15000
        THEN IF y > snowStartHeight THEN Plain("colorSnow")
             ELSE Blended(rock, "colorSnow", Clamp01(snowBlend))
        ELSE Scaled(rock, 900 + RDiv(microN, 50))

\* Grass blend (lines 106-110): SAND_LEVEL <= y < ROCK_LEVEL on flat terrain.
GrassColor(ny, n) ==
    LET grass == IF n > 2000 THEN "colorGrass" ELSE "colorDarkGrass"
    IN  IF ny < 85 THEN Blended(grass, "colorRock", 400) ELSE Plain(grass)

\* High altitude on flat terrain (lines 111-130).
HighColor(y, n) ==
    LET snowThreshold ==
            IF y > ROCK_LEVEL + 20000
            THEN ROCK_LEVEL + 20000 + RDiv(n * 3, 10)
            ELSE ROCK_LEVEL + RDiv(n * 5, 10)
        transitionStart == snowThreshold - 5000
        blend == RDiv((y - transitionStart) * 1000, 5000)
    IN  IF y > snowThreshold THEN Plain("colorSnow")
        ELSE IF y > transitionStart
        THEN Blended("colorDarkRock", "colorSnow", Clamp01(blend))
        ELSE Plain("colorDarkRock")

\* Flat terrain logic (lines 102-132): banded by elevation.
FlatColor(y, ny, n) ==
    IF y < SAND_LEVEL THEN Blended("colorSand", "colorGrass", 300)
    ELSE IF y < ROCK_LEVEL THEN GrassColor(ny, n)
    ELSE HighColor(y, n)

\* Mutant of FinalColor: the elevation bands are tested before the slope.
FinalColorBandsFirst(y, ny, n, microN) ==
    IF y < WATER_LEVEL - 1000 THEN Scaled("colorSand", 700)
    ELSE IF y < WATER_LEVEL + 500 THEN Plain("colorSand")
    ELSE IF y < SAND_LEVEL THEN FlatColor(y, ny, n)
    ELSE IF ny < 65 THEN SteepColor(y, n, microN)
    ELSE FlatColor(y, ny, n)

\* finalColor of a vertex (lines 75-133) from its height y, the y of its
\* normal and the two noise samples.
FinalColor(y, ny, n, microN) ==
    IF y < WATER_LEVEL - 1000 THEN Scaled("colorSand", 700)
    ELSE IF y < WATER_LEVEL + 500 THEN Plain("colorSand")
    ELSE IF ny < 65 THEN SteepColor(y, n, microN)
    ELSE FlatColor(y, ny, n)

\* The heights, normals and noise samples of the vertices the colour loop
\* is run on: values on both sides of every threshold of the cascade, within
\* what getTerrainHeight, a unit normal and noise2D return.
PaintHeights ==
    {-5000, 799, 800, 2299, 2300, 3799, 3800, 10000, 19500, 21999, 22000,
     23000, 24500, 30000, 34000}
PaintNormals == {0, 64, 65, 84, 85, 100}
PaintNoises == {-5000, -1, 0, 1, 2000, 2001, 5000}
PaintMicroNoises == {-5000, 5000}

\* No vertex coloured yet.
PaintStart ==
    vertexPaint = [set |-> FALSE, y |-> 0, ny |-> 0, n |-> 0, microN |-> 0,
                   finalColor |-> Plain("none")]

\* One iteration of the colour loop (lines 59-138).
SetColors(y, ny, n, microN) ==
    vertexPaint' = [set |-> TRUE, y |-> y, ny |-> ny, n |-> n,
                    microN |-> microN,
                    finalColor |-> FinalColor(y, ny, n, microN)]

-----------------------------------------------------------------------------
(***************************************************************************)
(* Flock simulation (components/World/Flock)                               *)
(*                                                                         *)
(* Units: positions, velocities, accelerations and heights are in 1e-4     *)
(* world units (one world unit is 10000); directions are unit vectors of   *)
(* length 10000; the clock is in 1/600 s.  A bird whose components are NaN *)
(* carries nan = TRUE; its vectors then hold no meaning.                   *)
(***************************************************************************)

\* The number of birds the model runs with (100 in the program).
BIRD_COUNT == 3

\* The number of callbacks of Flock.useFrame in a run.
MaxTicks == 2

Unit == 10 * 1000

perceptionRadius == 15 * Unit
separationDistance == 4 * Unit
maxSpeed == 8 * 1000
minSpeed == 4 * 1000
maxForce == 3 * 100
cameraRepulsionRadius == 25 * Unit
lookAheadDist == 20

\* getTerrainHeight at a position given in 1e-4, result in 1e-4.
TerrainAt(x, z) == 10 * GetTerrainHeight(noiseSeed, RDiv(x, 10), RDiv(z, 10))

\* d.normalize().multiplyScalar(maxSpeed).sub(bird.velocity)
\*  .clampLength(0, maxForce).multiplyScalar(num / den).
Steer(d, velocity, num, den) ==
    VScale(ClampLength(VSub(VScale(Normalize(d), maxSpeed, Unit), velocity),
                       0, maxForce),
           num, den)

\* weather.windDirection.clone().multiplyScalar((weather.windSpeed - 1) *
\* 0.005) when weather.windSpeed > 1.2, else nothing.
WindForce ==
    IF weatherRef.windSpeed > 120000
    THEN VScale(LiveWind, RDiv(weatherRef.windSpeed - 100000, 100), 200000)
    ELSE ZeroVec

\* The neighbours of bird i: the j # i with distSq < perceptionRadius^2.
\* A comparison with a NaN position is false.
Neighbours(bs, i) ==
    {j \in DOMAIN bs \ {i} :
        /\ ~bs[i].nan /\ ~bs[j].nan
        /\ MaxAbs(VSub(bs[i].position, bs[j].position)) < perceptionRadius
        /\ Length(VSub(bs[i].position, bs[j].position)) < perceptionRadius}

RECURSIVE SumOver(_, _, _)
SumOver(f, S, zero) ==
    IF S = {} THEN zero
    ELSE LET j == CHOOSE k \in S : \A l \in S : k <= l
         IN  VAdd(f[j], SumOver(f, S \ {j}, zero))

\* diff.normalize().divideScalar(dist) for a neighbour nearer than
\* separationDistance, else nothing; dist > 0.
SeparationTerm(bs, i, j) ==
    LET diff == VSub(bs[i].position, bs[j].position)
        dist == Length(diff)
    IN  IF dist < separationDistance
        THEN VScale(Normalize(diff), Unit, dist)
        ELSE ZeroVec

\* A neighbour at distance 0 makes the separation term 0 / 0.
SeparationIsNaN(bs, i) ==
    \E j \in Neighbours(bs, i) : bs[i].position = bs[j].position

\* Separation, alignment and cohesion of bird i (lines 131-178).
Boids(bs, i) ==
    LET N == Neighbours(bs, i)
        total == Cardinality(N)
        bird == bs[i]
        separation ==
            VScale(SumOver([j \in N |-> SeparationTerm(bs, i, j)], N, ZeroVec),
                   1, total)
        alignment ==
            VScale(SumOver([j \in N |-> bs[j].velocity], N, ZeroVec), 1, total)
        cohesion ==
            VScale(SumOver([j \in N |-> bs[j].position], N, ZeroVec), 1, total)
    IN  IF total = 0 \/ SeparationIsNaN(bs, i) THEN ZeroVec
        ELSE VAdd(IF separation # ZeroVec
                  THEN Steer(separation, bird.velocity, 35, 10)
                  ELSE separation,
                  VAdd(Steer(alignment, bird.velocity, 1, 1),
                       Steer(VSub(cohesion, bird.position), bird.velocity,
                             1, 1)))

\* Seek the wander target (lines 181-185).
SeekForce(bird, target) ==
    LET seekDir == VSub(target, bird.position)
    IN  IF seekDir # ZeroVec THEN Steer(seekDir, bird.velocity, 6, 10)
        ELSE ZeroVec

\* Camera avoidance (lines 188-197).  1 - dist / 25 is held in 1e-6 as the
\* digits sh, sl to the base 1000; strength is its square times
\* cameraRepulsionWeight = 10, in 1e-4.
CameraForce(bird, localCameraPos) ==
    LET repulsionDir == VSub(bird.position, localCameraPos)
        dist == Length(repulsionDir)
        sh == (1000000 - 4 * dist) \div 1000
        sl == (1000000 - 4 * dist) % 1000
        strength ==
            RDiv(sh * sh * 1000 + 2 * sh * sl + RDiv(sl * sl, 1000), Unit)
    IN  IF MaxAbs(repulsionDir) < cameraRepulsionRadius
            /\ dist < cameraRepulsionRadius
        THEN VScale(Normalize(repulsionDir), strength, Unit)
        ELSE ZeroVec

\* Vector3.applyAxisAngle((0, 1, 0), +0.5 or -0.5) of a unit vector;
\* cos 0.5 = 0.8776, sin 0.5 = 0.4794.
RotateY(v, sign) ==
    Vec(RDiv(v.x * 8776 + sign * v.z * 4794, Unit), v.y,
        RDiv(v.z * 8776 - sign * v.x * 4794, Unit))

\* The terrain heights at the three probes lookAheadDist ahead of the bird
\* (lines 204-217): straight on and on the feelers rotated by +0.5 and -0.5.
ProbeHeights(bird) ==
    LET velNorm == Normalize(bird.velocity)
        leftFeelerDir == RotateY(velNorm, 1)
        rightFeelerDir == RotateY(velNorm, -1)
        probeCenter == VAdd(bird.position, VScale(velNorm, lookAheadDist, 1))
        probeLeft ==
            VAdd(bird.position, VScale(leftFeelerDir, lookAheadDist, 1))
        probeRight ==
            VAdd(bird.position, VScale(rightFeelerDir, lookAheadDist, 1))
    IN  [hCenter |-> TerrainAt(probeCenter.x, probeCenter.z),
         hLeft |-> TerrainAt(probeLeft.x, probeLeft.z),
         hRight |-> TerrainAt(probeRight.x, probeRight.z)]

\* crossVectors((0, 1, 0), velocity).normalize() and
\* crossVectors(velocity, (0, 1, 0)).normalize() (lines 227, 231).
LeftDir(bird) == Normalize(Vec(bird.velocity.z, 0, -bird.velocity.x))
RightDir(bird) == Normalize(Vec(-bird.velocity.z, 0, bird.velocity.x))

\* steerForce after steerForce.y = 0.5, normalised and multiplied by
\* avoidanceWeight * 1.5 = 18 (lines 234-238), for the chosen side.
SteerTo(side) == VScale(Normalize(Vec(side.x, 5000, side.z)), 18, 1)

\* Mutant of ProbeForce: the test of the two feelers is hLeft > hRight.
ProbeForceToHigherSide(bird) ==
    IF ProbeHeights(bird).hCenter > bird.position.y - 5 * Unit
    THEN IF ProbeHeights(bird).hLeft > ProbeHeights(bird).hRight
         THEN SteerTo(LeftDir(bird))
         ELSE SteerTo(RightDir(bird))
    ELSE ZeroVec

\* Horizontal probing (lines 201-239): if the centre probe is higher than
\* currentY - 5, steer to the side of the lower feeler.
ProbeForce(bird) ==
    IF ProbeHeights(bird).hCenter > bird.position.y - 5 * Unit
    THEN IF ProbeHeights(bird).hLeft < ProbeHeights(bird).hRight
         THEN SteerTo(LeftDir(bird))
         ELSE SteerTo(RightDir(bird))
    ELSE ZeroVec

\* Math.pow(4 - clearance, 2) * 0.5 * avoidanceWeight for clearance given in
\* 1e-4, as the fraction num / den of 1e-4: exact just below the threshold,
\* the square taken at a coarser unit further down.
PushUpStrength(clearance) ==
    LET d == Abs(4 * Unit - clearance)
    IN  IF d < 18000 THEN [num |-> 6 * d * d, den |-> Unit]
        ELSE IF d <= 180000
        THEN [num |-> RDiv(d, 10) * RDiv(d, 10) * 6, den |-> 100]
        ELSE [num |-> RDiv(d, 1000) * RDiv(d, 1000) * 6 * 100, den |-> 1]

PushUp(clearance) ==
    RDiv(PushUpStrength(clearance).num, PushUpStrength(clearance).den)

\* currentY - groundHeightBelow (lines 242-243).
Clearance(bird) ==
    bird.position.y - TerrainAt(bird.position.x, bird.position.z)

\* Mutant of GroundForce: the push starts at clearance 8.
GroundForceFromEight(bird) ==
    IF Clearance(bird) < 8 * Unit THEN Vec(0, PushUp(Clearance(bird)), 0)
    ELSE ZeroVec

\* Vertical floor avoidance (lines 242-249).
GroundForce(bird) ==
    IF Clearance(bird) < 4 * Unit THEN Vec(0, PushUp(Clearance(bird)), 0)
    ELSE ZeroVec

\* Math.sin(x * 0.05) * Math.cos(z * 0.05) at a position in 1e-4 (line 256),
\* in 1e-4.
ClusterNoiseAt(x, z) == RDiv(Sin(RDiv(x, 20)) * Cos(RDiv(z, 20)), Unit)

\* The tree-zone tests of the canopy weaving without the clearance test
\* (lines 254 and 259): heights and clusterNoise in 1e-4.
CanopyGate(groundHeightBelow, clusterNoise) ==
    /\ groundHeightBelow > 2 * Unit
    /\ groundHeightBelow < 18 * Unit
    /\ clusterNoise > -2000

\* Tree canopy weaving (lines 254-270); t is the clock in 1/600 s.
CanopyForce(bird, t) ==
    LET groundHeightBelow == TerrainAt(bird.position.x, bird.position.z)
        clearance == bird.position.y - groundHeightBelow
        clusterNoise == ClusterNoiseAt(bird.position.x, bird.position.z)
        noiseX == Noise2D(noiseSeed, bird.position.x * 15,
                          bird.position.z * 15 + RDiv(t * 2500, 3))
        noiseZ == Noise2D(noiseSeed, bird.position.x * 15 + 100 * 1000000,
                          bird.position.z * 15 + RDiv(t * 2500, 3))
    IN  IF CanopyGate(groundHeightBelow, clusterNoise) /\ clearance < 8 * Unit
        THEN VScale(Normalize(Vec(noiseX, 0, noiseZ)), 8, 1)
        ELSE ZeroVec

\* Ceiling (lines 273-275): acceleration.y -= maxForce * 1.5.
CeilingForce(bird) ==
    IF bird.position.y > 100 * Unit THEN Vec(0, -RDiv(maxForce * 15, 10), 0)
    ELSE ZeroVec

\* The acceleration the physics loop accumulates for bird i.  A bird whose
\* position is NaN fails every comparison and receives the wind only.
Acceleration(bs, i, target, localCameraPos, t) ==
    LET bird == bs[i]
    IN  IF bird.nan THEN WindForce
        ELSE VAdd(WindForce,
             VAdd(Boids(bs, i),
             VAdd(SeekForce(bird, target),
             VAdd(CameraForce(bird, localCameraPos),
             VAdd(ProbeForce(bird),
             VAdd(GroundForce(bird),
             VAdd(CanopyForce(bird, t), CeilingForce(bird))))))))

\* The vectors the physics loop adds to the acceleration of bird i, one by
\* one; pushUp is strength * avoidanceWeight of the floor avoidance.
NoParts ==
    [wind |-> ZeroVec, boids |-> ZeroVec, seek |-> ZeroVec,
     camera |-> ZeroVec, probe |-> ZeroVec, ground |-> ZeroVec,
     canopy |-> ZeroVec, ceiling |-> ZeroVec, pushUp |-> [num |-> 0, den |-> 1],
     set |-> FALSE]

ForceParts(bs, i, target, localCameraPos, t) ==
    LET bird == bs[i]
    IN  IF bird.nan THEN [NoParts EXCEPT !.wind = WindForce, !.set = TRUE]
        ELSE [wind |-> WindForce,
              boids |-> Boids(bs, i),
              seek |-> SeekForce(bird, target),
              camera |-> CameraForce(bird, localCameraPos),
              probe |-> ProbeForce(bird),
              ground |-> GroundForce(bird),
              canopy |-> CanopyForce(bird, t),
              ceiling |-> CeilingForce(bird),
              pushUp |-> IF Clearance(bird) < 4 * Unit
                         THEN PushUpStrength(Clearance(bird))
                         ELSE [num |-> 0, den |-> 1],
              set |-> TRUE]

\* The values Math.random() returned while the birds were created, in 1e-4:
\* for each bird the draws for x, z, y and the two velocity components.
\* "spread": no bird perceives another; "tight": the birds are neighbours,
\* two of them nearer than separationDistance; "still": both velocity draws
\* of the first bird are 0.5; "same": the first two birds drew the same
\* position.
FlockDraws ==
    [spread |-> << <<5000, 5000, 5000, 5000, 9000>>,
                   <<9000, 1000, 0, 8000, 2000>>,
                   <<1000, 9000, 9000, 2000, 6000>>,
                   <<3000, 3000, 3000, 7000, 7000>> >>,
     tight  |-> << <<5000, 5000, 5000, 5000, 9000>>,
                   <<5200, 5100, 5500, 8000, 2000>>,
                   <<4700, 5500, 4500, 2000, 6000>>,
                   <<5000, 6000, 5000, 7000, 7000>> >>,
     still  |-> << <<5000, 5000, 5000, 5000, 5000>>,
                   <<9000, 1000, 0, 8000, 2000>>,
                   <<1000, 9000, 9000, 2000, 6000>>,
                   <<3000, 3000, 3000, 7000, 7000>> >>,
     same   |-> << <<5000, 5000, 5000, 5000, 9000>>,
                   <<5000, 5000, 5000, 8000, 2000>>,
                   <<1000, 9000, 9000, 2000, 6000>>,
                   <<3000, 3000, 3000, 7000, 7000>> >>]

\* One element of the birds array (lines 34-46).
NewBird(d) ==
    [position |-> Vec((d[1] - 5000) * 100, 40 * Unit + d[3] * 20,
                      (d[2] - 5000) * 100),
     velocity |-> VScale(Normalize(Vec(d[4] - 5000, 0, d[5] - 5000)), 1, 2),
     acceleration |-> ZeroVec,
     nan |-> FALSE,
     accNan |-> FALSE]

\* camera.position in world coordinates: the initial camera of the Canvas and
\* a camera flown close in front of the first bird.
CameraPositions == {Vec(100 * Unit, 60 * Unit, 100 * Unit),
                    Vec(0, 394110, 193492)}

\* meshRef.current.worldToLocal: the flock's group sits at (0, -10, 0).
WorldToLocal(p) == Vec(p.x, p.y + 10 * Unit, p.z)

NoVec == [x |-> 0, y |-> 0, z |-> 0, nan |-> FALSE]

\* A bird in mid-flight: over the spot (x, z) = p at the given clearance
\* above the terrain, flying at the given velocity.
BirdOver(p, clearance, velocity) ==
    [position |-> Vec(p[1], TerrainAt(p[1], p[2]) + clearance, p[2]),
     velocity |-> velocity,
     acceleration |-> ZeroVec,
     nan |-> FALSE,
     accNan |-> FALSE]

\* Spots, clearances and velocities of the bird in mid-flight: a spot whose
\* ground lies just above 2 in a tree cluster, the origin and a spot in a
\* clearing; clearances below, at and above the thresholds 4, 5 and 8;
\* velocities of speed 0.5.
ForceSpots == {<<-150000, 350000>>, <<0, 0>>, <<200000, -750000>>}
ForceClearances == {-10000, 39990, 40000, 60000, 300000}
ForceVelocities == {Vec(0, 0, 5000), Vec(5000, 0, 0), Vec(-4000, 0, -3000)}

\* The Flock component with the given birds array.
FlockStartWith(bs) ==
    /\ birds = bs
    /\ flockCenter = NoVec
    /\ flockVelocity = NoVec
    /\ wanderTarget = [x |-> 0, y |-> 50 * Unit, z |-> 0, nan |-> FALSE]
    /\ wanderAngle = 0
    /\ flockPc = [phase |-> "idle", i |-> 0]
    /\ flockIn = [t |-> 0, localCameraPos |-> ZeroVec]
    /\ flockHist = [ticks |-> 0, startBirds |-> <<>>]
    /\ forceLog = [i \in 1..BIRD_COUNT |-> NoParts]

\* The Flock component after mount.
FlockStart(setup) ==
    FlockStartWith([i \in 1..BIRD_COUNT |-> NewBird(FlockDraws[setup][i])])

\* Flock.useFrame up to the physics loop (lines 54-117): read the clock, the
\* weather and the camera, move the wander target, reset the flock stats.
FlockBegin(cameraPosition) ==
    /\ flockPc.phase = "idle"
    /\ flockHist.ticks < MaxTicks
    /\ LET t == flockIn.t + frameDelta
           noiseVal == Noise2D(noiseSeed, RDiv(t * 500, 3), 0)
           angle == wanderAngle + RDiv(noiseVal * 5, 100)
           targetX == flockCenter.x + Sin(angle) * 80
           targetZ == flockCenter.z + Cos(angle) * 80
           stormDampener ==
               IF weatherRef.windSpeed > 100000
               THEN RDiv((weatherRef.windSpeed - 100000) * 3, 10) ELSE 0
           flyHeightParams ==
               Sin(RDiv(t * 10, 3)) * 5 + 8 * Unit - stormDampener
           clampedHeight ==
               IF flyHeightParams > 5 * Unit THEN flyHeightParams
               ELSE 5 * Unit
       IN  /\ wanderAngle' = angle
           /\ wanderTarget' =
                  IF flockCenter.nan
                  THEN [x |-> 0, y |-> 0, z |-> 0, nan |-> TRUE]
                  ELSE [x |-> targetX,
                        y |-> TerrainAt(targetX, targetZ) + clampedHeight,
                        z |-> targetZ, nan |-> FALSE]
           /\ flockIn' = [t |-> t,
                          localCameraPos |-> WorldToLocal(cameraPosition)]
    /\ flockCenter' = NoVec
    /\ flockVelocity' = NoVec
    /\ flockPc' = [phase |-> "force", i |-> 1]
    /\ flockHist' = [ticks |-> flockHist.ticks + 1, startBirds |-> birds]
    /\ forceLog' = [i \in 1..BIRD_COUNT |-> NoParts]
    /\ UNCHANGED birds

\* The acceleration of bird i and whether it is NaN.
ForceOf(bs, i) ==
    [acceleration |->
        IF wanderTarget.nan
        THEN Acceleration(bs, i, bs[i].position, flockIn.localCameraPos,
                          flockIn.t)
        ELSE Acceleration(bs, i, wanderTarget, flockIn.localCameraPos,
                          flockIn.t),
     accNan |-> ~bs[i].nan /\ SeparationIsNaN(bs, i),
     parts |->
        IF wanderTarget.nan
        THEN ForceParts(bs, i, bs[i].position, flockIn.localCameraPos,
                        flockIn.t)
        ELSE ForceParts(bs, i, wanderTarget, flockIn.localCameraPos,
                        flockIn.t)]

\* Mutant of SetForce: the bird is integrated in the same iteration that
\* computes its force.
SetForceAndMove(i, f) ==
    /\ birds' = [birds EXCEPT
                    ![i].acceleration = f.acceleration,
                    ![i].accNan = f.accNan,
                    ![i].velocity =
                        ClampLength(VAdd(@, f.acceleration), minSpeed, maxSpeed),
                    ![i].position =
                        VAdd(@, ClampLength(VAdd(birds[i].velocity,
                                                 f.acceleration),
                                            minSpeed, maxSpeed))]
    /\ forceLog' = [forceLog EXCEPT ![i] = f.parts]

\* One iteration of the physics loop (lines 120-276): bird.acceleration is
\* reset and accumulated; nothing else is written.
SetForce(i, f) ==
    /\ birds' = [birds EXCEPT ![i].acceleration = f.acceleration,
                              ![i].accNan = f.accNan]
    /\ forceLog' = [forceLog EXCEPT ![i] = f.parts]

ForceStep ==
    /\ flockPc.phase = "force"
    /\ SetForce(flockPc.i, ForceOf(birds, flockPc.i))
    /\ flockPc' = IF flockPc.i < BIRD_COUNT
                  THEN [phase |-> "force", i |-> flockPc.i + 1]
                  ELSE [phase |-> "update", i |-> 1]
    /\ UNCHANGED <<flockCenter, flockVelocity, wanderTarget, wanderAngle,
                   flockIn, flockHist>>

\* bird.velocity.add(acceleration); clampLength(minSpeed, maxSpeed);
\* bird.position.add(velocity).  NaN components stay NaN.
Integrate(bird) ==
    LET velocity ==
            ClampLength(VAdd(bird.velocity, bird.acceleration),
                        minSpeed, maxSpeed)
    IN  [bird EXCEPT !.velocity = velocity,
                     !.position = VAdd(bird.position, velocity),
                     !.nan = bird.nan \/ bird.accNan]

\* Vector3.add on the flock stats.
StatAdd(stat, v, nan) ==
    [x |-> stat.x + v.x, y |-> stat.y + v.y, z |-> stat.z + v.z,
     nan |-> stat.nan \/ nan]

\* One iteration of the update loop (lines 279-322).
SetBird(i, bird) ==
    /\ birds' = [birds EXCEPT ![i] = bird]
    /\ flockCenter' = StatAdd(flockCenter, bird.position, bird.nan)
    /\ flockVelocity' = StatAdd(flockVelocity, bird.velocity, bird.nan)

UpdateStep ==
    /\ flockPc.phase = "update"
    /\ SetBird(flockPc.i, Integrate(birds[flockPc.i]))
    /\ flockPc' = IF flockPc.i < BIRD_COUNT
                  THEN [phase |-> "update", i |-> flockPc.i + 1]
                  ELSE [phase |-> "end", i |-> 0]
    /\ UNCHANGED <<wanderTarget, wanderAngle, flockIn, flockHist, forceLog>>

\* The end of the callback (lines 324-331): the stats become averages.
FlockEnd ==
    /\ flockPc.phase = "end"
    /\ flockCenter' = [x |-> RDiv(flockCenter.x, BIRD_COUNT),
                       y |-> RDiv(flockCenter.y, BIRD_COUNT),
                       z |-> RDiv(flockCenter.z, BIRD_COUNT),
                       nan |-> flockCenter.nan]
    /\ flockVelocity' = [x |-> RDiv(flockVelocity.x, BIRD_COUNT),
                         y |-> RDiv(flockVelocity.y, BIRD_COUNT),
                         z |-> RDiv(flockVelocity.z, BIRD_COUNT),
                         nan |-> flockVelocity.nan]
    /\ flockPc' = [phase |-> "idle", i |-> 0]
    /\ UNCHANGED <<birds, wanderTarget, wanderAngle, flockIn, flockHist,
                   forceLog>>

-----------------------------------------------------------------------------
(***************************************************************************)
(* Render loop (Canvas, Scene.tsx)                                         *)
(*                                                                         *)
(* Every useFrame callback is subscribed by a layout effect of its         *)
(* component and no call passes a renderPriority, so each frame calls the  *)
(* callbacks in the order the effects ran at mount: those of the children  *)
(* in JSX order, then the one of SceneContent itself.                      *)
(***************************************************************************)

MaxFrames == 2

\* The callbacks of one frame in call order: CameraController (line 198),
\* InfiniteWorld (line 235), Flock (line 237), SceneContent (line 143).
Subscribers ==
    <<"CameraController", "InfiniteWorld", "Flock", "SceneContent">>

\* The Canvas after mount: no frame rendered, the camera at [100, 60, 100].
FrameStart ==
    frameLoop = [n |-> 0, pc |-> 0,
                 camera |-> Vec(100 * Unit, 60 * Unit, 100 * Unit),
                 lerps |-> 0,
                 read |-> [frame |-> 0, lerps |-> 0, windSpeed |-> 0]]

\* The subscriber after the current one; 0 when the frame is over.
NextSubscriber ==
    IF frameLoop.pc < Len(Subscribers) THEN frameLoop.pc + 1 ELSE 0

Running(name) == frameLoop.pc > 0 /\ Subscribers[frameLoop.pc] = name

\* requestAnimationFrame fires: a frame begins; the controls have moved the
\* camera to c.
BeginFrame(c) ==
    /\ frameLoop.pc = 0
    /\ frameLoop.n < MaxFrames
    /\ frameLoop' = [frameLoop EXCEPT !.n = @ + 1, !.pc = 1, !.camera = c]

\* CameraController's callback in explore mode: the focus is the camera.
RunCameraController ==
    /\ Running("CameraController")
    /\ CameraControllerFrame([x |-> RDiv(frameLoop.camera.x, Unit),
                              z |-> RDiv(frameLoop.camera.z, Unit)])
    /\ frameLoop' = [frameLoop EXCEPT !.pc = NextSubscriber]

RunInfiniteWorld ==
    /\ Running("InfiniteWorld")
    /\ InfiniteWorldFrame
    /\ frameLoop' = [frameLoop EXCEPT !.pc = NextSubscriber]

\* Flock's callback starts: const weather = weatherRef.current (line 58).
RunFlockBegin ==
    /\ Running("Flock")
    /\ FlockBegin(frameLoop.camera)
    /\ frameLoop' = [frameLoop EXCEPT
                         !.read = [frame |-> frameLoop.n,
                                   lerps |-> frameLoop.lerps,
                                   windSpeed |-> weatherRef.windSpeed]]

RunForceStep == Running("Flock") /\ ForceStep /\ UNCHANGED frameLoop

RunUpdateStep == Running("Flock") /\ UpdateStep /\ UNCHANGED frameLoop

RunFlockEnd ==
    /\ Running("Flock")
    /\ FlockEnd
    /\ frameLoop' = [frameLoop EXCEPT !.pc = NextSubscriber]

\* SceneContent's callback: the weather interpolation of this frame.
RunSceneContent ==
    /\ Running("SceneContent")
    /\ WeatherFrame
    /\ frameLoop' = [frameLoop EXCEPT !.pc = NextSubscriber, !.lerps = @ + 1]

-----------------------------------------------------------------------------
(***************************************************************************)
(* Rain (components/World/Rain)                                            *)
(*                                                                         *)
(* Units: drop positions, drop speeds and the wind are in 1e-2 world       *)
(* units; Math.random() values are in 1e-2.  The model follows the first   *)
(* TrackedDrops entries of the drops array.                                *)
(***************************************************************************)

DROP_COUNT == 8000

\* The number of drops whose positions the model follows.
TrackedDrops == 2

\* The values Math.random() returns when a drop is reset: one record per
\* reset, for the height and the two horizontal offsets.
ResetDraws == {[y |-> 0, x |-> 0, z |-> 99], [y |-> 99, x |-> 50, z |-> 0]}

\* The drops array after mount: the k-th drop at a position in
\* [-100, 100) x [0, 120) x [-100, 100) with a speed in [1.5, 3).
InitialDrop(k) ==
    [pos |-> Vec(((k * 7700) % 20000) - 10000, (k * 5500) % 12000,
                 ((k * 13300) % 20000) - 10000),
     speed |-> 150 + ((k * 70) % 150)]

\* The instancedMesh after mount: visible, count = DROP_COUNT (args), no
\* matrix written yet.
RainStart ==
    rainMesh = [pc |-> "rain", visible |-> TRUE, count |-> DROP_COUNT,
                drops |-> [k \in 1..TrackedDrops |-> InitialDrop(k)],
                matrices |-> [k \in 1..TrackedDrops |-> Vec(0, 0, 0)]]

\* weatherRef.current.windDirection.clone()
\*     .multiplyScalar(weatherRef.current.windSpeed * 0.5).
RainWind ==
    LET speed == RDiv(weatherRef.windSpeed, 1000)
    IN  Vec(RDiv(RDiv(LiveWind.x, 100) * speed, 200),
            RDiv(RDiv(LiveWind.y, 100) * speed, 200),
            RDiv(RDiv(LiveWind.z, 100) * speed, 200))

\* drop.pos.y -= drop.speed * (60 * delta);
\* drop.pos.addScaledVector(wind, delta * 10).
FallenDrop(drop, wind, delta) ==
    Vec(drop.pos.x + RDiv(wind.x * (delta \div 20), 3),
        drop.pos.y - RDiv(drop.speed * delta, 10)
            + RDiv(wind.y * (delta \div 20), 3),
        drop.pos.z + RDiv(wind.z * (delta \div 20), 3))

\* The wrap of one horizontal coordinate around the camera: both tests read
\* the relative position computed before the wrap.
Wrapped(v, cam) ==
    IF v - cam > 10000 THEN v - 20000
    ELSE IF v - cam < -10000 THEN v + 20000
    ELSE v

\* The body of drops.forEach up to the matrix update: move, wrap, reset.
MovedDrop(drop, wind, delta, cam, r) ==
    LET fallen == FallenDrop(drop, wind, delta)
    IN  IF fallen.y < 0
        THEN [drop EXCEPT !.pos = Vec(cam.x + (r.x - 50) * 200,
                                      10000 + r.y * 20,
                                      cam.z + (r.z - 50) * 200)]
        ELSE [drop EXCEPT !.pos = Vec(Wrapped(fallen.x, cam.x), fallen.y,
                                      Wrapped(fallen.z, cam.z))]

\* Math.floor(DROP_COUNT * weatherRef.current.rainIntensity).
DrawnCount(rainIntensity) == (rainIntensity * (DROP_COUNT \div 1000)) \div 100

\* camera.position, in 1e-2.
RainCamera ==
    Vec(RDiv(frameLoop.camera.x, 100), RDiv(frameLoop.camera.y, 100),
        RDiv(frameLoop.camera.z, 100))

\* Rain.useFrame (lines 63-125); r gives the Math.random() values of the
\* resets, by drop.  The matrix of a drop is set from its position.
RainFrame(r) ==
    /\ rainMesh.pc = "rain"
    /\ IF weatherRef.rainIntensity < 1000
       THEN rainMesh' = [rainMesh EXCEPT !.pc = "scene", !.visible = FALSE]
       ELSE rainMesh' =
                [pc |-> "scene",
                 visible |-> TRUE,
                 count |-> DrawnCount(weatherRef.rainIntensity),
                 drops |->
                     [k \in 1..TrackedDrops |->
                         MovedDrop(rainMesh.drops[k], RainWind, frameDelta,
                                   RainCamera, r[k])],
                 matrices |->
                     [k \in 1..TrackedDrops |->
                         MovedDrop(rainMesh.drops[k], RainWind, frameDelta,
                                   RainCamera, r[k]).pos]]

\* SceneContent.useFrame of the same frame, called after the callback of
\* its child Rain.
SceneFrameAfterRain ==
    /\ rainMesh.pc = "scene"
    /\ WeatherFrame
    /\ rainMesh' = [rainMesh EXCEPT !.pc = "rain"]

\* A weather button pressed between two frames.
SetWeatherBetweenFrames(m) ==
    /\ rainMesh.pc = "rain"
    /\ SetWeather(m)
    /\ UNCHANGED rainMesh

-----------------------------------------------------------------------------
(***************************************************************************)
(* Specifications                                                          *)
(***************************************************************************)

notChunkVars ==
    <<weatherVars, noiseVars, floraVars, flockVars, frameVars, paintVars,
      rainVars>>
notWeatherVars ==
    <<chunkVars, noiseVars, floraVars, flockVars, frameVars, paintVars,
      rainVars>>
notNoiseVars ==
    <<chunkVars, weatherVars, floraVars, flockVars, frameVars, paintVars,
      rainVars>>
notFloraVars ==
    <<chunkVars, weatherVars, flockVars, frameVars, paintVars,
      rainVars>>
notFlockVars ==
    <<chunkVars, weatherVars, noiseVars, floraVars, frameVars, paintVars,
      rainVars>>

NextChunks ==
    \/ \E p \in FocusPositions :
           CameraControllerFrame(p) /\ UNCHANGED notChunkVars
    \/ InfiniteWorldFrame /\ UNCHANGED notChunkVars
    \/ ReactRender /\ UNCHANGED notChunkVars

InitChunks ==
    /\ ChunkInit
    /\ WeatherStart(60)
    /\ NoiseStart(0)
    /\ FloraStart
    /\ FlockStart("spread")
    /\ FrameStart
    /\ PaintStart
    /\ RainStart

SpecChunks == InitChunks /\ [][NextChunks]_vars

NextWeather ==
    \/ \E m \in WeatherModes : SetWeather(m) /\ UNCHANGED notWeatherVars
    \/ WeatherFrame /\ UNCHANGED notWeatherVars

InitWeather ==
    /\ ChunkInit
    /\ \E d \in FrameDeltas : WeatherStart(d)
    /\ NoiseStart(0)
    /\ FloraStart
    /\ FlockStart("spread")
    /\ FrameStart
    /\ PaintStart
    /\ RainStart

SpecWeather == InitWeather /\ [][NextWeather]_vars

\* Runs at ordinary frame rates: 1/60 s and 0.1 s.
ColorDeltas == {10, 60}

InitColors ==
    /\ ChunkInit
    /\ \E d \in ColorDeltas : WeatherStart(d)
    /\ NoiseStart(0)
    /\ FloraStart
    /\ FlockStart("spread")
    /\ FrameStart
    /\ PaintStart
    /\ RainStart

SpecColors == InitColors /\ [][NextWeather]_vars

NextNoise ==
    \/ \E seed \in NoiseSeeds : ModuleLoad(seed) /\ UNCHANGED notNoiseVars
    \/ \E p \in SamplePoints : SampleTerrain(p) /\ UNCHANGED notNoiseVars

InitNoise ==
    /\ ChunkInit
    /\ WeatherStart(60)
    /\ \E seed \in NoiseSeeds : NoiseStart(seed)
    /\ FloraStart
    /\ FlockStart("spread")
    /\ FrameStart
    /\ PaintStart
    /\ RainStart

SpecNoise == InitNoise /\ [][NextNoise]_vars

\* The page is loaded again while no treeData computation is running: the
\* module is evaluated anew and every component starts unmounted.
PageReload(seed) ==
    /\ floraGen.pc # "loop"
    /\ ModuleLoad(seed)
    /\ floraGen' = FloraIdle
    /\ UNCHANGED floraRef

NextFlora ==
    \/ \E c \in FloraCoords :
           BeginTreeData(c) /\ UNCHANGED <<notFloraVars, noiseVars>>
    \/ TreeDataIteration /\ UNCHANGED <<notFloraVars, noiseVars>>
    \/ FinishTreeData /\ UNCHANGED <<notFloraVars, noiseVars>>
    \/ \E seed \in NoiseSeeds : PageReload(seed) /\ UNCHANGED notFloraVars

InitFlora ==
    /\ ChunkInit
    /\ WeatherStart(60)
    /\ \E seed \in NoiseSeeds : NoiseStart(seed)
    /\ FloraStart
    /\ FlockStart("spread")
    /\ FrameStart
    /\ PaintStart
    /\ RainStart

SpecFlora == InitFlora /\ [][NextFlora]_vars

\* The weather after a switch to mode m has been interpolated to the end:
\* the scalars and colours of m; the live windDirection is still the DAY
\* preset's Vector3, which now holds the direction of m.
WeatherSettled(m, d) ==
    /\ weatherMode = m
    /\ weatherRef = [WeatherConfigs[m] EXCEPT !.windDirection = "DAY"]
    /\ windVectors = [PresetWind EXCEPT !["DAY"] = PresetWind[m]]
    /\ frameDelta = d
    /\ weatherHist = [held |-> 0, switches |-> 0, frames |-> 0]

NextFlock ==
    \/ \E c \in CameraPositions : FlockBegin(c) /\ UNCHANGED notFlockVars
    \/ ForceStep /\ UNCHANGED notFlockVars
    \/ UpdateStep /\ UNCHANGED notFlockVars
    \/ FlockEnd /\ UNCHANGED notFlockVars

InitFlock ==
    /\ ChunkInit
    /\ \E m \in WeatherModes : WeatherSettled(m, 10)
    /\ NoiseStart(0)
    /\ FloraStart
    /\ \E setup \in DOMAIN FlockDraws : FlockStart(setup)
    /\ FrameStart
    /\ PaintStart
    /\ RainStart

SpecFlock == InitFlock /\ [][NextFlock]_vars

\* The flock some ticks after mount: the first bird has flown down to a
\* spot near the terrain, the others are where they were created.
InitForces ==
    /\ ChunkInit
    /\ \E m \in WeatherModes : WeatherSettled(m, 10)
    /\ NoiseStart(0)
    /\ FloraStart
    /\ \E p \in ForceSpots, c \in ForceClearances, v \in ForceVelocities :
           FlockStartWith([i \in 1..BIRD_COUNT |->
                              IF i = 1 THEN BirdOver(p, c, v)
                              ELSE NewBird(FlockDraws["spread"][i])])
    /\ FrameStart
    /\ PaintStart
    /\ RainStart

SpecForces == InitForces /\ [][NextFlock]_vars

notPaintVars ==
    <<chunkVars, weatherVars, noiseVars, floraVars, flockVars, frameVars,
      rainVars>>

NextPaint ==
    \E y \in PaintHeights, ny \in PaintNormals, n \in PaintNoises,
       microN \in PaintMicroNoises :
        SetColors(y, ny, n, microN) /\ UNCHANGED notPaintVars

InitPaint ==
    /\ ChunkInit
    /\ WeatherStart(60)
    /\ NoiseStart(0)
    /\ FloraStart
    /\ FlockStart("spread")
    /\ FrameStart
    /\ PaintStart
    /\ RainStart

SpecPaint == InitPaint /\ [][NextPaint]_vars

\* The frame deltas of a run with rain: 0.1 s, 4/3 s, and 20/3 s, the frame
\* after a stall (lerpSpeed 10).
RainFrameDeltas == {60, 800, 4000}

NextLookups ==
    \/ \E seed \in LookupSeeds : ModuleLoad(seed) /\ UNCHANGED notNoiseVars
    \/ \E X \in LookupColumns, Y \in LookupRows :
           Noise2DCall(X, Y) /\ UNCHANGED notNoiseVars

InitLookups ==
    /\ ChunkInit
    /\ WeatherStart(60)
    /\ \E seed \in LookupSeeds : NoiseStart(seed)
    /\ FloraStart
    /\ FlockStart("spread")
    /\ FrameStart
    /\ PaintStart
    /\ RainStart

SpecLookups == InitLookups /\ [][NextLookups]_vars

notRainVars ==
    <<chunkVars, noiseVars, floraVars, flockVars, frameVars, paintVars>>

NextRain ==
    \/ \E m \in WeatherModes :
           SetWeatherBetweenFrames(m) /\ UNCHANGED notRainVars
    \/ \E r \in [1..TrackedDrops -> ResetDraws] :
           RainFrame(r) /\ UNCHANGED <<weatherVars, notRainVars>>
    \/ SceneFrameAfterRain /\ UNCHANGED notRainVars

InitRain ==
    /\ ChunkInit
    /\ \E d \in RainFrameDeltas : WeatherStart(d)
    /\ NoiseStart(0)
    /\ FloraStart
    /\ FlockStart("spread")
    /\ FrameStart
    /\ PaintStart
    /\ RainStart

SpecRain == InitRain /\ [][NextRain]_vars

notFrameFlockVars ==
    <<chunkVars, weatherVars, noiseVars, floraVars, paintVars,
      rainVars>>
notFrameChunkVars ==
    <<weatherVars, noiseVars, floraVars, flockVars, paintVars,
      rainVars>>
notFrameWeatherVars ==
    <<chunkVars, noiseVars, floraVars, flockVars, paintVars,
      rainVars>>

\* Between two frames React applies state updates: the weather prop of App
\* and the chunk list of InfiniteWorld.
NextFrame ==
    \/ \E c \in CameraPositions :
           BeginFrame(c)
               /\ UNCHANGED <<chunkVars, weatherVars, noiseVars, floraVars,
                              flockVars, paintVars, rainVars>>
    \/ RunCameraController /\ UNCHANGED notFrameChunkVars
    \/ RunInfiniteWorld /\ UNCHANGED notFrameChunkVars
    \/ RunFlockBegin /\ UNCHANGED notFrameFlockVars
    \/ RunForceStep /\ UNCHANGED notFrameFlockVars
    \/ RunUpdateStep /\ UNCHANGED notFrameFlockVars
    \/ RunFlockEnd /\ UNCHANGED notFrameFlockVars
    \/ RunSceneContent /\ UNCHANGED notFrameWeatherVars
    \/ \E m \in WeatherModes :
           frameLoop.pc = 0 /\ SetWeather(m) /\ UNCHANGED notWeatherVars
    \/ frameLoop.pc = 0 /\ ReactRender /\ UNCHANGED notChunkVars

InitFrame ==
    /\ ChunkInit
    /\ \E d \in FrameDeltas : WeatherStart(d)
    /\ NoiseStart(0)
    /\ FloraStart
    /\ \E setup \in DOMAIN FlockDraws : FlockStart(setup)
    /\ FrameStart
    /\ PaintStart
    /\ RainStart

SpecFrame == InitFrame /\ [][NextFrame]_vars

-----------------------------------------------------------------------------
(***************************************************************************)
(* Claims about the chunk streamer                                         *)
(***************************************************************************)

\* C1 (as stated): in every reachable state the active set is exactly the
\* square of (2R+1)^2 coordinates around round(focus / 200).
C1_ActiveSetAlwaysDisk == ActiveSet = Disk(FocusChunk(viewerPosition))

\* C1 (amended): whenever the streamer's frame step has run for the current
\* focus position, found the key unchanged and no state update is queued,
\* the active set is exactly the square of 25 coordinates around
\* round(focus / 200): none outside it is active, none inside it is missing.
C1_SettledActiveSetIsDisk ==
    chunkHist.settled =>
        /\ ActiveSet = Disk(FocusChunk(viewerPosition))
        /\ Cardinality(ActiveSet) = 25
        /\ Len(visibleChunks) = 25

\* C1 witness: the focus has left chunk (0, 0), the update was applied and a
\* later frame step found nothing to change.
C1_Witness ==
    /\ chunkHist.settled
    /\ chunkHist.prevChunks # <<>>
    /\ FocusChunk(viewerPosition) # [x |-> 0, z |-> 0]

\* C2: once the frame step that follows a change of the focus chunk has run
\* and its state update is applied, the active set is the full square around
\* the focus chunk that step computed: nothing of the old square that lies
\* outside the new one is left, nothing of the new one is missing.
C2_UpdateInstallsNewDisk ==
    chunkHist.prevChunks # <<>> =>
        LET old == SeqToSet(chunkHist.prevChunks)
            new == Disk(chunkHist.curFocus)
        IN  /\ chunkHist.curFocus # chunkHist.prevFocus
            /\ (old \ new) \cap ActiveSet = {}
            /\ new \subseteq ActiveSet
            /\ ActiveSet \subseteq new

\* C2 witness: an applied update after the focus chunk moved in x and in z,
\* by more than one chunk in x.
C2_Witness ==
    /\ chunkHist.prevChunks # <<>>
    /\ chunkHist.curFocus.z # chunkHist.prevFocus.z
    /\ chunkHist.curFocus.x - chunkHist.prevFocus.x \in {-3, -2, 2, 3}
    /\ ActiveSet = Disk(chunkHist.curFocus)

\* C3: with R = 2, when the focus chunk moves from (cx, cz) to (cx+1, cz),
\* exactly the 5 coordinates of column cx-2 leave the active set, exactly the
\* 5 coordinates of column cx+3 enter it, all others stay, 25 stay active.
C3_ColumnSwap ==
    LET old == SeqToSet(chunkHist.prevChunks)
        cx == chunkHist.prevFocus.x
        cz == chunkHist.prevFocus.z
        column(x) == {[x |-> x, z |-> cz + dz] : dz \in -2..2}
    IN  (/\ chunkHist.prevChunks # <<>>
         /\ chunkHist.curFocus = [x |-> cx + 1, z |-> cz])
        => /\ RENDER_DISTANCE = 2
           /\ old \ ActiveSet = column(cx - 2)
           /\ ActiveSet \ old = column(cx + 3)
           /\ Cardinality(old \ ActiveSet) = 5
           /\ Cardinality(ActiveSet \ old) = 5
           /\ old \cap ActiveSet = old \ column(cx - 2)
           /\ Cardinality(ActiveSet) = 25

\* C3 witness: the applied update moved the focus chunk from (0,0) to (1,0).
C3_Witness ==
    /\ chunkHist.prevChunks # <<>>
    /\ chunkHist.prevFocus = [x |-> 0, z |-> 0]
    /\ chunkHist.curFocus = [x |-> 1, z |-> 0]
    /\ [x |-> 3, z |-> -2] \in ActiveSet
    /\ [x |-> -2, z |-> 2] \notin ActiveSet

\* C19: the key comparison of the frame step is a set-equality test.  A
\* frame step calls setVisibleChunks exactly when the square around the
\* focus chunk differs, as a set, from the active set, and then queues that
\* square; otherwise it queues nothing.  It never changes the active set
\* itself, and while the focus chunk is the one the active set was built
\* around it calls nothing, wherever in that chunk the focus is.
C19_FrameStepTestsSetEquality ==
    [][(chunkPc = "world" /\ chunkPc' = "camera") =>
          LET newSet == Disk(FocusChunk(viewerPosition))
          IN  /\ chunkHist'.called <=> (newSet # ActiveSet)
              /\ chunkHist'.called =>
                     /\ SeqToSet(pendingChunks') = newSet
                     /\ Len(pendingChunks') = Cardinality(newSet)
              /\ ~chunkHist'.called => pendingChunks' = pendingChunks
              /\ visibleChunks' = visibleChunks
              /\ FocusChunk(viewerPosition) = chunkHist.curFocus
                     => ~chunkHist'.called]_vars

\* C19 witness: after an applied update the focus moved within the chunk the
\* active set is built around, off its centre, and the frame step that
\* followed called nothing.
C19_Witness ==
    /\ chunkPc = "camera"
    /\ chunkHist.settled
    /\ ~chunkHist.called
    /\ chunkHist.prevChunks # <<>>
    /\ FocusChunk(viewerPosition) = chunkHist.curFocus
    /\ viewerPosition.x # chunkHist.curFocus.x * CHUNK_SIZE

\* The focus p lies in the closed footprint of the chunk c, whose mesh is
\* centred at (c.x * size, c.z * size) and is size wide.
InFootprint(p, c) ==
    /\ c.x * CHUNK_SIZE - HalfChunk <= p.x
    /\ p.x <= c.x * CHUNK_SIZE + HalfChunk
    /\ c.z * CHUNK_SIZE - HalfChunk <= p.z
    /\ p.z <= c.z * CHUNK_SIZE + HalfChunk

\* C27: the focus point is always inside the footprint of its focus chunk,
\* c = round(focus / size) on each axis, for negative coordinates and exact
\* half-way values too; and the focus chunk a frame step queued a new range
\* around is the one whose footprint holds the focus.
C27_FocusInsideFocusChunk ==
    /\ InFootprint(viewerPosition, FocusChunk(viewerPosition))
    /\ (chunkPc = "camera" /\ chunkHist.called)
           => InFootprint(viewerPosition, pendingFocus)

\* C27 witness: the focus is at a negative half-way value on x (x / size =
\* -1.5) and off the origin row, and the frame step queued the range around
\* chunk -1.
C27_Witness ==
    /\ chunkPc = "camera"
    /\ chunkHist.called
    /\ viewerPosition.x = -3 * HalfChunk
    /\ viewerPosition.z = -HalfChunk
    /\ pendingFocus = [x |-> -1, z |-> 0]

\* The mounted TerrainChunk components that show coordinate c.
ChunksAt(c) ==
    {key \in DOMAIN terrainChunks :
        terrainChunks[key].chunkX = c.x /\ terrainChunks[key].chunkZ = c.z}

\* C20: after an applied update, every coordinate of the new active set is
\* shown by exactly one mounted chunk; that chunk was generated by this
\* render exactly when the coordinate was not in the old active set, so a
\* coordinate in both sets keeps what it had; no chunk is left for a
\* coordinate that is not in the new active set.
C20_OnlyNewChunksGenerated ==
    chunkHist.prevChunks # <<>> =>
        LET old == SeqToSet(chunkHist.prevChunks)
        IN  /\ \A c \in ActiveSet :
                   /\ Cardinality(ChunksAt(c)) = 1
                   /\ \A key \in ChunksAt(c) :
                          terrainChunks[key].generated <=> c \notin old
            /\ \A c \in old \ ActiveSet : ChunksAt(c) = {}
            /\ Cardinality(DOMAIN terrainChunks) = Cardinality(ActiveSet)

\* C20 witness: an applied update that kept some chunks, generated some and
\* unmounted some.
C20_Witness ==
    /\ chunkHist.prevChunks # <<>>
    /\ \E c \in ActiveSet \cap SeqToSet(chunkHist.prevChunks) :
           \E key \in ChunksAt(c) : ~terrainChunks[key].generated
    /\ \E c \in ActiveSet \ SeqToSet(chunkHist.prevChunks) :
           \E key \in ChunksAt(c) : terrainChunks[key].generated
    /\ \E c \in SeqToSet(chunkHist.prevChunks) \ ActiveSet : ChunksAt(c) = {}

-----------------------------------------------------------------------------
(***************************************************************************)
(* Claims about the weather controller                                     *)
(***************************************************************************)

\* |windDirection|^2 of the live state, in 1e-8.
LiveWindLengthSq ==
    LiveWind.x * LiveWind.x + LiveWind.y * LiveWind.y + LiveWind.z * LiveWind.z

\* C6 (as stated): after every weather-lerp step the live windDirection has
\* unit length; the tolerance allowed here is 5e-4 of the length.
C6_WindDirectionUnitLength ==
    weatherHist.frames > 0 =>
        Abs(LiveWindLengthSq - 10000 * 10000) <= 100000

FiveSeconds == 5 * TicksPerSecond

\* The preset the current mode selects.
TargetParams == WeatherConfigs[weatherMode]

\* 0.1 % of the distance between the two presets' values of a scalar field,
\* and not less than the resolution at which the fixed-point lerp stalls.
ConvergedWithin(f) ==
    LET range == Abs(WeatherConfigs["DAY"][f] - WeatherConfigs["CLOUDY"][f])
    IN  IF range \div 1000 < 4 THEN 4 ELSE range \div 1000

C25_PresetsNeverModified ==
    /\ windVectors = PresetWind
    /\ (/\ weatherMode = "DAY"
        /\ weatherHist.switches = 2
        /\ frameDelta = 60
        /\ weatherHist.held > FiveSeconds)
           => /\ Abs(LiveWind.x - PresetWind["DAY"].x) <= 100
              /\ Abs(LiveWind.z - PresetWind["DAY"].z) <= 100

\* Back on DAY and held there, the live wind direction is not the one the
\* DAY preset was created with.
WindStuckAfterReturnToDay ==
    /\ weatherMode = "DAY"
    /\ weatherHist.switches = 2
    /\ weatherHist.held > FiveSeconds
    /\ Abs(LiveWind.x - PresetWind["DAY"].x) > 100

\* C26 (as stated): whatever the frame delta and the mode switches, every
\* scalar field of the live state lies between the two presets' values of
\* that field; so rainIntensity is in [0, 0.2], fogDensity is positive and
\* windSpeed is in [1.0, 4.5].
C26_ScalarsBetweenPresets ==
    \A f \in ScalarFields :
        LET day == WeatherConfigs["DAY"][f]
            cloudy == WeatherConfigs["CLOUDY"][f]
        IN  /\ weatherRef[f] >= IF day < cloudy THEN day ELSE cloudy
            /\ weatherRef[f] <= IF day < cloudy THEN cloudy ELSE day

\* The same for the runs whose frame delta is at most 2/3 s.
CalmScalarsBetweenPresets ==
    frameDelta * 3 <= 2 * TicksPerSecond => C26_ScalarsBetweenPresets

\* The fog density or the rain intensity of the live state is negative.
NegativeFogOrRain ==
    weatherRef.fogDensity < 0 \/ weatherRef.rainIntensity < 0

\* C14 (as stated): with the mode held, every colour field eventually
\* reaches the preset's colour; so a colour that the next interpolation step
\* would leave as it is has reached the preset.
C14_ColoursReachPreset ==
    \A f \in ColorFields :
        ColorLerp(weatherRef[f], WeatherConfigs[weatherMode][f],
                  LerpSpeed(frameDelta)) = weatherRef[f]
            => weatherRef[f] = WeatherConfigs[weatherMode][f]

-----------------------------------------------------------------------------
(***************************************************************************)
(* Claims about the noise field                                            *)
(***************************************************************************)

\* C9 (as stated): sample2D(x, z) and height(x, z) return identical results
\* for identical arguments across repeated calls and across process runs:
\* no argument has ever been answered with two different results.
C9_SameResultAcrossRuns ==
    \A p \in SamplePoints : Cardinality(heightLog[p]) <= 1

\* The four octaves as (frequency factor in tenths, amplitude divisor):
\* F, 2.5 F, 6 F, 15 F with A, A / 4, A / 10, A / 30.
Octaves == <<<<10, 1>>, <<25, 4>>, <<60, 10>>, <<150, 30>>>>

\* The raw sum S of the four octaves at (x, z), in 1e-3.
OctaveSum(seed, x, z) ==
    LET term(o) ==
            RDiv(Noise2D(seed, RDiv(x * FREQUENCY * o[1], 10),
                               RDiv(z * FREQUENCY * o[1], 10)) * AMPLITUDE,
                 o[2])
    IN  RDiv(term(Octaves[1]) + term(Octaves[2]) + term(Octaves[3])
                 + term(Octaves[4]), 10)

\* C12: every height a call returns is the raw octave sum S when S >= 0 and
\* 0.6 * S when S < 0.
C12_HeightIsFlattenedOctaveSum ==
    [][\A p \in SamplePoints :
          \A r \in heightLog'[p] \ heightLog[p] :
              LET S == OctaveSum(noiseSeed, p[1], p[2])
              IN  r.height = IF S >= 0 THEN S ELSE RDiv(6 * S, 10)]_vars

\* C12 witness: calls have returned a height above 0 (a raw sum kept as it
\* is) and a height below 0 (a raw sum that was flattened).
C12_Witness ==
    /\ \E p \in SamplePoints : \E r \in heightLog[p] : r.height > 0
    /\ \E p \in SamplePoints : \E r \in heightLog[p] : r.height < 0

-----------------------------------------------------------------------------
(***************************************************************************)
(* Claims about flora placement                                            *)
(***************************************************************************)

\* C10 (as stated): generating the flora of the same (chunkX, chunkZ) twice
\* yields the same list of instances: a completed treeData of the chunk that
\* was generated first equals the list generated then.
C10_SameFloraOnRegeneration ==
    (floraGen.pc = "done" /\ floraRef.set /\ floraGen.chunk = floraRef.chunk)
        => floraGen.data = floraRef.data

\* Within one process run the regenerated list does equal the first one.
FloraSameWithinRun ==
    (processRun = 1 /\ floraGen.pc = "done" /\ floraRef.set
        /\ floraGen.chunk = floraRef.chunk)
        => floraGen.data = floraRef.data

\* C21: the placement loop of a chunk makes at most 375 attempts and accepts
\* at most 150 instances: every step leaves i <= 375, count <= 150 and as
\* many instances in data as count; a step inside the loop is one attempt,
\* raises i by one, and is taken only while i < 375 and count < 150, so no
\* attempt follows the 150th accepted instance.
C21_PlacementStopsAtTarget ==
    [][/\ floraGen'.i <= 375
       /\ floraGen'.count <= 150
       /\ Len(floraGen'.data) = floraGen'.count
       /\ (floraGen.pc = "loop" /\ floraGen'.pc = "loop") =>
              /\ floraGen'.i = floraGen.i + 1
              /\ floraGen.i < 375
              /\ floraGen.count < 150
              /\ floraGen'.count \in {floraGen.count, floraGen.count + 1}]_vars

\* C21 witness: a chunk whose placement ended with 150 instances before the
\* 375 attempts were used up.
C21_Witness ==
    /\ floraGen.pc = "done"
    /\ floraGen.count = 150
    /\ Len(floraGen.data) = 150
    /\ floraGen.i < 375

\* A chunk whose placement used all 375 attempts.
PlacementRanOut ==
    floraGen.pc = "done" /\ floraGen.i = 375 /\ floraGen.count < 150

\* The value the third random() of the attempt about to run returns, in
\* 1e-6: the sparsity draw of a candidate that passed the placement rules.
SparsityDraw == RandomValue(LcgAfter(floraGen.seed, 3))

\* C22 (as stated): the sparsity gate lets a quarter of the draw range
\* through.  A gate that compares the draw with one threshold and accepts a
\* quarter of [0, 1) rejects every draw strictly between 0.25 and 0.75, so
\* no attempt that accepts an instance has its sparsity draw there.
C22_SparsityGateAcceptsQuarter ==
    [][(/\ floraGen.pc = "loop"
        /\ floraGen'.pc = "loop"
        /\ floraGen'.count = floraGen.count + 1)
           => ~(SparsityDraw > 250000 /\ SparsityDraw < 750000)]_vars

\* What the code does: an accepted instance had a draw of at most 0.75, a
\* candidate that passed the placement rules and drew more was rejected.
SparsityGateRejectsTopQuarter ==
    [][(floraGen.pc = "loop" /\ floraGen'.pc = "loop") =>
          /\ floraGen'.count = floraGen.count + 1 => SparsityDraw <= 750000
          /\ SparsityDraw > 750000 => floraGen'.count = floraGen.count]_vars

\* The generator state is a draw in [0, 1): 0 <= seed < 233280.
DrawInUnitInterval(seed) == ~seed.neg /\ seed.int < LcgModulus

\* The local offsets of the instance lie in [-size/2, size/2), in 1e-3.
InsideOwnChunk(tree) ==
    /\ tree.position.x >= -(HalfChunk * 1000)
    /\ tree.position.x < HalfChunk * 1000
    /\ tree.position.z >= -(HalfChunk * 1000)
    /\ tree.position.z < HalfChunk * 1000

\* C28 (as stated): for every chunk coordinate, the negative ones included,
\* every draw of the generator lies in [0, 1) and every placed instance has
\* its local x and z offsets in [-size/2, size/2).
C28_DrawsAndOffsetsInRange ==
    /\ floraGen.i > 0 => DrawInUnitInterval(floraGen.seed)
    /\ \A k \in 1..Len(floraGen.data) : InsideOwnChunk(floraGen.data[k])

\* What the code does: the claim for the chunks whose initial seed
\* chunkX * 43758.5453 + chunkZ * 23421.6543 is not negative.
DrawsInRangeFromPositiveSeed ==
    ~InitialSeed(floraGen.chunk.x, floraGen.chunk.z).neg
        => C28_DrawsAndOffsetsInRange

\* A chunk of negative initial seed whose placed instances all lie outside
\* its footprint, on the side of the lower x and z.
FloraBesideOwnChunk ==
    /\ floraGen.pc = "done"
    /\ floraGen.count > 0
    /\ \A k \in 1..Len(floraGen.data) :
           /\ floraGen.data[k].position.x <= -(HalfChunk * 1000)
           /\ floraGen.data[k].position.z <= -(HalfChunk * 1000)

\* Every read of the watched call was inside the table and returned a
\* table entry.
ReadsInsideTable ==
    \A k \in 1..Len(permLog.reads) :
        /\ permLog.reads[k].index \in 0..511
        /\ permLog.reads[k].value # Undefined

\* C30 (as stated): every entry floor(abs(sin(seed + i)) * 256) of the base
\* table is in 0..255, so every index noise2D reads the permutation table at
\* (perm[X] + Y + 1 the largest) is in 0..511 and no read returns undefined.
C30_LookupsInsideTable ==
    /\ \A i \in 0..255 : BaseTable(noiseSeed, i) \in 0..255
    /\ permLog.called => ReadsInsideTable

\* What the code does: the claim for the seeds at which no Math.sin(seed + i)
\* rounds to 1 or -1.
LookupsInsideTableOffHalfPi ==
    /\ noiseSeed # HalfPiSeed =>
           \A i \in 0..255 : BaseTable(noiseSeed, i) \in 0..255
    /\ (permLog.called /\ permLog.seed # HalfPiSeed) => ReadsInsideTable

\* A call that read perm[511], the last entry, with a table entry of 255.
LookupAtLastEntry ==
    /\ permLog.called
    /\ permLog.seed # HalfPiSeed
    /\ \E k \in 1..Len(permLog.reads) : permLog.reads[k].index = 511

\* A call that read perm[512] and got undefined.
LookupPastTheTable ==
    /\ permLog.called
    /\ \E k \in 1..Len(permLog.reads) :
           permLog.reads[k].index = 512 /\ permLog.reads[k].value = Undefined

-----------------------------------------------------------------------------
(***************************************************************************)
(* Claims about the rain                                                   *)
(***************************************************************************)

\* A step of Rain.useFrame.
RainStep == rainMesh.pc = "rain" /\ rainMesh'.pc = "scene"

\* C29 (as stated): after every rain frame step, if rainIntensity is below
\* 0.01 the mesh is hidden and no drop position and no instance count has
\* changed; otherwise the mesh is visible and its instance count is
\* floor(8000 * rainIntensity), a number from 0 to DROP_COUNT.
C29_RainGatedByIntensity ==
    [][RainStep =>
          IF weatherRef.rainIntensity < 1000
          THEN /\ ~rainMesh'.visible
               /\ rainMesh'.drops = rainMesh.drops
               /\ rainMesh'.count = rainMesh.count
          ELSE /\ rainMesh'.visible
               /\ rainMesh'.count * 100 <= weatherRef.rainIntensity * 8
               /\ weatherRef.rainIntensity * 8 < (rainMesh'.count + 1) * 100
               /\ rainMesh'.count >= 0
               /\ rainMesh'.count <= DROP_COUNT]_vars

\* What the code does: the same without the upper bound of the count, which
\* holds while rainIntensity is at most 1.
RainGatedCountUnbounded ==
    [][RainStep =>
          IF weatherRef.rainIntensity < 1000
          THEN /\ ~rainMesh'.visible
               /\ rainMesh'.drops = rainMesh.drops
               /\ rainMesh'.count = rainMesh.count
          ELSE /\ rainMesh'.visible
               /\ rainMesh'.count * 100 <= weatherRef.rainIntensity * 8
               /\ weatherRef.rainIntensity * 8 < (rainMesh'.count + 1) * 100
               /\ rainMesh'.count >= 0
               /\ weatherRef.rainIntensity <= 100000
                      => rainMesh'.count <= DROP_COUNT]_vars

\* The mesh is asked to draw more instances than it was created with.
MoreDropsThanAllocated == rainMesh.visible /\ rainMesh.count > DROP_COUNT

\* The mesh was hidden by a rain step while the weather is CLOUDY and drops
\* had been moved before.
RainHiddenAfterShower ==
    /\ rainMesh.pc = "scene"
    /\ ~rainMesh.visible
    /\ rainMesh.count < DROP_COUNT
    /\ rainMesh.drops # [k \in 1..TrackedDrops |-> InitialDrop(k)]

-----------------------------------------------------------------------------
(***************************************************************************)
(* Claims about the terrain colours                                        *)
(***************************************************************************)

RockColors == {"colorRock", "colorDarkRock"}
SoftColors == {"colorSand", "colorGrass", "colorDarkGrass"}

\* C23: the colour of a vertex follows a priority cascade.  Below
\* WATER_LEVEL - 1 it is the sand darkened to 0.7 and from there to below
\* WATER_LEVEL + 0.5 it is the sand, whatever the slope and the noise.  From
\* WATER_LEVEL + 0.5 up a normal below 0.65 gives rock or dark rock, at most
\* blended toward snow, and never sand or grass, in every elevation band;
\* only with a normal of 0.65 or more does the band decide: sand blended
\* toward grass below SAND_LEVEL, a grass below ROCK_LEVEL, dark rock or
\* snow from ROCK_LEVEL up.
C23_ColourCascade ==
    vertexPaint.set =>
        LET y == vertexPaint.y
            ny == vertexPaint.ny
            c == vertexPaint.finalColor
        IN  /\ y < WATER_LEVEL - 1000 => c = Scaled("colorSand", 700)
            /\ (y >= WATER_LEVEL - 1000 /\ y < WATER_LEVEL + 500)
                   => c = Plain("colorSand")
            /\ (y >= WATER_LEVEL + 500 /\ ny < 65) =>
                   /\ c.base \in RockColors
                   /\ c.toward \in {"none", "colorSnow"}
                   /\ c.base \notin SoftColors /\ c.toward \notin SoftColors
            /\ (y >= WATER_LEVEL + 500 /\ ny >= 65) =>
                   /\ y < SAND_LEVEL =>
                          c = Blended("colorSand", "colorGrass", 300)
                   /\ (y >= SAND_LEVEL /\ y < ROCK_LEVEL) =>
                          c.base \in {"colorGrass", "colorDarkGrass"}
                   /\ y >= ROCK_LEVEL =>
                          c.base \in {"colorDarkRock", "colorSnow"}

\* C23 witness: a steep vertex in the elevation band of the sand blend got a
\* rock colour.
C23_Witness ==
    /\ vertexPaint.set
    /\ vertexPaint.y >= WATER_LEVEL + 500
    /\ vertexPaint.y < SAND_LEVEL
    /\ vertexPaint.ny < 65
    /\ vertexPaint.finalColor.base \in RockColors

\* The vertex coloured last is on a gentle slope in the grass band.
InGrassBand ==
    /\ vertexPaint.set
    /\ vertexPaint.ny >= 65
    /\ vertexPaint.y >= SAND_LEVEL
    /\ vertexPaint.y < ROCK_LEVEL

\* C24 (as stated): on a gentle slope in the grass band the base colour is
\* the grass for a positive macro noise and the dark grass for a negative
\* one, and it is blended toward rock exactly when the normal is below 0.85.
C24_GrassBySignOfNoise ==
    InGrassBand =>
        /\ vertexPaint.n > 0 => vertexPaint.finalColor.base = "colorGrass"
        /\ vertexPaint.n < 0 => vertexPaint.finalColor.base = "colorDarkGrass"
        /\ vertexPaint.finalColor.toward = "colorRock" <=> vertexPaint.ny < 85

\* What the code does: the grass needs a macro noise above 0.2, and the
\* blend toward rock, by 0.4, is made exactly when the normal is below 0.85.
GrassAboveFifthOfNoise ==
    InGrassBand =>
        /\ vertexPaint.finalColor.base =
               IF vertexPaint.n > 2000 THEN "colorGrass" ELSE "colorDarkGrass"
        /\ vertexPaint.finalColor.toward = "colorRock" <=> vertexPaint.ny < 85
        /\ vertexPaint.finalColor.by = IF vertexPaint.ny < 85 THEN 400 ELSE 0

-----------------------------------------------------------------------------
(***************************************************************************)
(* Claims about the flock simulation                                       *)
(***************************************************************************)

\* The speed of bird i lies in [minSpeed, maxSpeed], up to the rounding of the
\* fixed-point length.
SpeedWithinLimits(i) ==
    /\ ~birds[i].nan
    /\ Length(birds[i].velocity) >= minSpeed - 5
    /\ Length(birds[i].velocity) <= maxSpeed + 5

SameMotionAsAtStart ==
    \A i \in 1..BIRD_COUNT :
        /\ birds[i].position = flockHist.startBirds[i].position
        /\ birds[i].velocity = flockHist.startBirds[i].velocity
        /\ birds[i].nan = flockHist.startBirds[i].nan

\* The number of birds the force pass of the running tick has handled.
ForcesDone ==
    IF flockPc.phase = "force" THEN flockPc.i - 1 ELSE BIRD_COUNT

\* C5: from the start of a tick until its force pass has handled the last
\* bird, no bird's position or velocity differs from the end of the previous
\* tick, and the acceleration written for each bird is the one computed from
\* those positions and velocities, whichever birds were handled before it.
C5_ForcePassWritesOnlyAcceleration ==
    (flockPc.phase = "force" \/ (flockPc.phase = "update" /\ flockPc.i = 1))
        => /\ SameMotionAsAtStart
           /\ \A i \in 1..ForcesDone :
                  birds[i].acceleration
                      = ForceOf(flockHist.startBirds, i).acceleration

\* C5 witness: the force pass has finished for all birds, integration has
\* not begun, and a bird that perceives neighbours carries a force.
C5_Witness ==
    /\ flockPc.phase = "update"
    /\ flockPc.i = 1
    /\ \E i \in 1..BIRD_COUNT :
           /\ Neighbours(birds, i) # {}
           /\ Boids(birds, i) # ZeroVec
           /\ birds[i].acceleration # ZeroVec

\* C13: a bird whose clearance at the start of the tick is below 4 receives
\* from the floor avoidance a vector with x = z = 0 and y > 0 (y is
\* strength * avoidanceWeight, strictly positive); a bird with clearance 4
\* or more receives nothing from it.
C13_GroundAvoidancePushesUp ==
    \A i \in 1..BIRD_COUNT :
        (forceLog[i].set /\ ~flockHist.startBirds[i].nan) =>
            LET part == forceLog[i]
            IN  IF Clearance(flockHist.startBirds[i]) < 4 * Unit
                THEN /\ part.ground.x = 0
                     /\ part.ground.z = 0
                     /\ part.pushUp.num > 0
                     /\ part.ground.y = RDiv(part.pushUp.num, part.pushUp.den)
                ELSE /\ part.ground = ZeroVec
                     /\ part.pushUp.num = 0

\* C13 witness: the force pass has handled a bird that started the tick
\* with a clearance below 4 and pushed it up.
C13_Witness ==
    \E i \in 1..BIRD_COUNT :
        /\ forceLog[i].set
        /\ Clearance(flockHist.startBirds[i]) < 4 * Unit
        /\ forceLog[i].ground.y > 0

\* The component of the logged obstacle-avoidance force of bird i towards
\* the side of its left feeler: a scaled dot product with the vector from
\* the right feeler's direction to the left feeler's.
ProbeLeftward(i) ==
    LET velNorm == Normalize(flockHist.startBirds[i].velocity)
        across == VSub(RotateY(velNorm, 1), RotateY(velNorm, -1))
        f == forceLog[i].probe
    IN  RDiv(f.x, 100) * across.x + RDiv(f.z, 100) * across.z

\* C16: the obstacle-avoidance force is added exactly when the terrain at
\* the centre probe is higher than the bird's altitude minus 5; when added
\* it points upward, is 18 long, and its lateral part points to the left of
\* the velocity when the left feeler reported the lower terrain and to the
\* right when the right feeler did.
C16_ObstacleAvoidanceSteersToLowerSide ==
    \A i \in 1..BIRD_COUNT :
        (forceLog[i].set /\ ~flockHist.startBirds[i].nan) =>
            LET bird == flockHist.startBirds[i]
                h == ProbeHeights(bird)
                f == forceLog[i].probe
            IN  IF h.hCenter > bird.position.y - 5 * Unit
                THEN /\ f.y > 0
                     /\ Abs(Length(f) - 18 * Unit) <= 20
                     /\ h.hLeft < h.hRight => ProbeLeftward(i) > 0
                     /\ h.hRight < h.hLeft => ProbeLeftward(i) < 0
                ELSE f = ZeroVec

\* C16 witness: a bird whose centre probe met terrain within 5 below its
\* altitude and whose left feeler reported the lower terrain was steered
\* to the left.
C16_Witness ==
    \E i \in 1..BIRD_COUNT :
        /\ forceLog[i].set
        /\ ProbeHeights(flockHist.startBirds[i]).hCenter
               > flockHist.startBirds[i].position.y - 5 * Unit
        /\ ProbeHeights(flockHist.startBirds[i]).hLeft
               < ProbeHeights(flockHist.startBirds[i]).hRight
        /\ ProbeLeftward(i) > 0

\* The mirror case: the right feeler reported the lower terrain.
ProbeSteeredRight ==
    \E i \in 1..BIRD_COUNT :
        /\ forceLog[i].set
        /\ ProbeHeights(flockHist.startBirds[i]).hRight
               < ProbeHeights(flockHist.startBirds[i]).hLeft
        /\ ProbeLeftward(i) < 0

\* The weight of each logged force in tenths; the wind has none, and boids
\* is the sum of separation (3.5), alignment (1.0) and cohesion (1.0).
ForceWeights ==
    [wind |-> 10, boids |-> 55, seek |-> 6, camera |-> 100, probe |-> 180,
     ground |-> 120, canopy |-> 80]

\* C15 (as stated): every steering force is clamped to maxForce before its
\* weight is applied, so the vector each force adds to the acceleration is
\* at most 0.03 times its weight long.
C15_ForcesClampedToMaxForce ==
    \A i \in 1..BIRD_COUNT : \A f \in DOMAIN ForceWeights :
        forceLog[i].set =>
            Length(forceLog[i][f]) <= RDiv(maxForce * ForceWeights[f], 10) + 5

\* C17 (as stated): the canopy weaving is gated by the tree-presence test of
\* the flora placement: for every bird the force pass has handled, at the
\* bird's position at the start of the tick and the terrain height there,
\* the canopy gate is open exactly when a tree candidate at that point
\* would pass the placement's elevation and clustering rules.
C17_CanopyGateIsPlacementGate ==
    \A i \in 1..BIRD_COUNT :
        (forceLog[i].set /\ ~flockHist.startBirds[i].nan) =>
            LET pos == flockHist.startBirds[i].position
                ground == TerrainAt(pos.x, pos.z)
                clusterNoise == ClusterNoiseAt(pos.x, pos.z)
            IN  CanopyGate(ground, clusterNoise)
                    <=> PlacementGate(RDiv(ground, 10), clusterNoise)

\* A bird low over ground between 2 and 2.3 received a canopy force.
CanopyOverBareShore ==
    \E i \in 1..BIRD_COUNT :
        /\ forceLog[i].set
        /\ forceLog[i].canopy # ZeroVec
        /\ TerrainAt(flockHist.startBirds[i].position.x,
                     flockHist.startBirds[i].position.z) <= 23000

\* The wander target this step sets lies 80 units, measured horizontally,
\* from the centroid the previous tick left, and hovers between 5 and 15
\* above the terrain under it, not higher than it would in calm air
\* (windSpeed 1).
WanderTargetHoversAhead ==
    LET dx == wanderTarget'.x - flockCenter.x
        dz == wanderTarget'.z - flockCenter.z
        dist == Length(Vec(RDiv(dx, 100), 0, RDiv(dz, 100)))
        hover == wanderTarget'.y - TerrainAt(wanderTarget'.x, wanderTarget'.z)
        calm == Sin(RDiv(flockIn'.t * 10, 3)) * 5 + 8 * Unit
    IN  /\ dist >= 7998 /\ dist <= 8002
        /\ hover >= 5 * Unit /\ hover <= 15 * Unit
        /\ hover <= IF calm > 5 * Unit THEN calm ELSE 5 * Unit

\* C18 (as stated): every tick leaves the wander target a real point 80
\* units ahead of the previous tick's centroid, hovering 5 to 15 above the
\* terrain, never higher in stronger wind.
C18_WanderTargetHoversAhead ==
    [][flockHist'.ticks = flockHist.ticks + 1
           => ~wanderTarget'.nan /\ WanderTargetHoversAhead]_vars

\* The same for the ticks that start from a centroid that is a number.
WanderTargetHoversAheadOfRealCentroid ==
    [][(flockHist'.ticks = flockHist.ticks + 1 /\ ~flockCenter.nan)
           => ~wanderTarget'.nan /\ WanderTargetHoversAhead]_vars

\* C11 (as stated): no bird's position or velocity is ever NaN or Infinity,
\* also when two birds occupy the same position or a bird coincides with the
\* camera.
C11_NoNaNReachesBirds ==
    \A i \in 1..BIRD_COUNT : ~birds[i].nan

-----------------------------------------------------------------------------
(***************************************************************************)
(* Claims about the render loop                                            *)
(***************************************************************************)

\* C8 (as stated): when the flock's callback reads the WeatherState in a
\* frame, the weather interpolation of that frame has already run, so the
\* number of completed interpolation steps is at least the frame's number.
C8_LerpBeforeFlockRead ==
    frameLoop.read.frame > 0 => frameLoop.read.lerps >= frameLoop.read.frame

=============================================================================
